---------------------------- MODULE Spec2Model ----------------------------
(***************************************************************************)
(* HPACK header-field decoding of rust/src/http2/parser.rs against one      *)
(* Dynamic Table (HTTP2DynTable).  Byte strings are sequences of 0..255.    *)
(* A decoder result (nom's IResult) is a record [kind, rem, val] with kind  *)
(* "Ok", "Error" or "Incomplete"; the mutating decoders also return the     *)
(* table they leave behind (field dyn).                                     *)
(***************************************************************************)
EXTENDS Integers, Sequences, FiniteSets, TLC

VARIABLES
    table,         \* dyn_headers.table: entries, oldest first, newest last
    current_size,  \* dyn_headers.current_size
    max_size,      \* dyn_headers.max_size
    overflow,      \* dyn_headers.overflow: 0 Clean, 1 Pending, 2 Overflowed
    last,          \* the last http2_parse_headers_block call: its input, the
                   \* table it was given (pre) and what it returned (res)
    notstored,     \* history: summed cost of the entries that were decoded
                   \* with Success but not pushed to the table
    inserted,      \* history (SpecFixed only): the entries decoded with
                   \* Success by Literal-with-Incremental-Indexing, in order
    varint,        \* SpecVarInt only: one http2_parse_var_uint call, its
                   \* arguments and, once it has returned, its result
    frame,         \* SpecFrame only: the Headers, PushPromise or Continuation
                   \* decode under way or returned: its arguments, the table
                   \* it was given (pre), the loop's i3 and blocks, and status
                   \* "Running" or the kind of the result
    call           \* SpecStateless only: one call of a decoder that takes no
                   \* table (string literal, frame header, settings), its
                   \* name, its arguments and, once it has returned, its result

vars == <<table, current_size, max_size, overflow, last, notstored, inserted,
          varint, frame, call>>

(***************************************************************************)
(* Bounds of the model.  The protocol ceiling HTTP2_MAX_TABLESIZE is a      *)
(* configurable value imported from http2.rs (parser.rs:19); the model      *)
(* scales it, and the max_size values the owner negotiates, down to a few   *)
(* entry costs so that eviction and the overflow states are reached.        *)
(***************************************************************************)
HTTP2_MAX_TABLESIZE == 100
MaxCurrentSize == 100
MaxInserted == 4

NegotiatedSizes == {40, HTTP2_MAX_TABLESIZE + 10}

HTTP2_STATIC_HEADERS_NUMBER == 61

Success == "HTTP2HeaderDecodeSuccess"
SizeUpdate == "HTTP2HeaderDecodeSizeUpdate"
NotIndexed == "HTTP2HeaderDecodeNotIndexed"
IntegerOverflow == "HTTP2HeaderDecodeIntegerOverflow"
Index0 == "HTTP2HeaderDecodeIndex0"

StaticTable ==
    <<
       <<<<58, 97, 117, 116, 104, 111, 114, 105, 116, 121>>, <<>>>>,  \* 1 => (":authority", "")
       <<<<58, 109, 101, 116, 104, 111, 100>>, <<71, 69, 84>>>>,  \* 2 => (":method", "GET")
       <<<<58, 109, 101, 116, 104, 111, 100>>, <<80, 79, 83, 84>>>>,  \* 3 => (":method", "POST")
       <<<<58, 112, 97, 116, 104>>, <<47>>>>,  \* 4 => (":path", "/")
       <<<<58, 112, 97, 116, 104>>, <<47, 105, 110, 100, 101, 120, 46, 104, 116, 109, 108>>>>,  \* 5 => (":path", "/index.html")
       <<<<58, 115, 99, 104, 101, 109, 101>>, <<104, 116, 116, 112>>>>,  \* 6 => (":scheme", "http")
       <<<<58, 115, 99, 104, 101, 109, 101>>, <<104, 116, 116, 112, 115>>>>,  \* 7 => (":scheme", "https")
       <<<<58, 115, 116, 97, 116, 117, 115>>, <<50, 48, 48>>>>,  \* 8 => (":status", "200")
       <<<<58, 115, 116, 97, 116, 117, 115>>, <<50, 48, 52>>>>,  \* 9 => (":status", "204")
       <<<<58, 115, 116, 97, 116, 117, 115>>, <<50, 48, 54>>>>,  \* 10 => (":status", "206")
       <<<<58, 115, 116, 97, 116, 117, 115>>, <<51, 48, 52>>>>,  \* 11 => (":status", "304")
       <<<<58, 115, 116, 97, 116, 117, 115>>, <<52, 48, 48>>>>,  \* 12 => (":status", "400")
       <<<<58, 115, 116, 97, 116, 117, 115>>, <<52, 48, 52>>>>,  \* 13 => (":status", "404")
       <<<<58, 115, 116, 97, 116, 117, 115>>, <<53, 48, 48>>>>,  \* 14 => (":status", "500")
       <<<<97, 99, 99, 101, 112, 116, 45, 99, 104, 97, 114, 115, 101, 116>>, <<>>>>,  \* 15 => ("accept-charset", "")
       <<<<97, 99, 99, 101, 112, 116, 45, 101, 110, 99, 111, 100, 105, 110, 103>>, <<103, 122, 105, 112, 44, 32, 100, 101, 102, 108, 97, 116, 101>>>>,  \* 16 => ("accept-encoding", "gzip, deflate")
       <<<<97, 99, 99, 101, 112, 116, 45, 108, 97, 110, 103, 117, 97, 103, 101>>, <<>>>>,  \* 17 => ("accept-language", "")
       <<<<97, 99, 99, 101, 112, 116, 45, 114, 97, 110, 103, 101, 115>>, <<>>>>,  \* 18 => ("accept-ranges", "")
       <<<<97, 99, 99, 101, 112, 116>>, <<>>>>,  \* 19 => ("accept", "")
       <<<<97, 99, 99, 101, 115, 115, 45, 99, 111, 110, 116, 114, 111, 108, 45, 97, 108, 108, 111, 119, 45, 111, 114, 105, 103, 105, 110>>, <<>>>>,  \* 20 => ("access-control-allow-origin", "")
       <<<<97, 103, 101>>, <<>>>>,  \* 21 => ("age", "")
       <<<<97, 108, 108, 111, 119>>, <<>>>>,  \* 22 => ("allow", "")
       <<<<97, 117, 116, 104, 111, 114, 105, 122, 97, 116, 105, 111, 110>>, <<>>>>,  \* 23 => ("authorization", "")
       <<<<99, 97, 99, 104, 101, 45, 99, 111, 110, 116, 114, 111, 108>>, <<>>>>,  \* 24 => ("cache-control", "")
       <<<<99, 111, 110, 116, 101, 110, 116, 45, 100, 105, 115, 112, 111, 115, 105, 116, 105, 111, 110>>, <<>>>>,  \* 25 => ("content-disposition", "")
       <<<<99, 111, 110, 116, 101, 110, 116, 45, 101, 110, 99, 111, 100, 105, 110, 103>>, <<>>>>,  \* 26 => ("content-encoding", "")
       <<<<99, 111, 110, 116, 101, 110, 116, 45, 108, 97, 110, 103, 117, 97, 103, 101>>, <<>>>>,  \* 27 => ("content-language", "")
       <<<<99, 111, 110, 116, 101, 110, 116, 45, 108, 101, 110, 103, 116, 104>>, <<>>>>,  \* 28 => ("content-length", "")
       <<<<99, 111, 110, 116, 101, 110, 116, 45, 108, 111, 99, 97, 116, 105, 111, 110>>, <<>>>>,  \* 29 => ("content-location", "")
       <<<<99, 111, 110, 116, 101, 110, 116, 45, 114, 97, 110, 103, 101>>, <<>>>>,  \* 30 => ("content-range", "")
       <<<<99, 111, 110, 116, 101, 110, 116, 45, 116, 121, 112, 101>>, <<>>>>,  \* 31 => ("content-type", "")
       <<<<99, 111, 111, 107, 105, 101>>, <<>>>>,  \* 32 => ("cookie", "")
       <<<<100, 97, 116, 101>>, <<>>>>,  \* 33 => ("date", "")
       <<<<101, 116, 97, 103>>, <<>>>>,  \* 34 => ("etag", "")
       <<<<101, 120, 112, 101, 99, 116>>, <<>>>>,  \* 35 => ("expect", "")
       <<<<101, 120, 112, 105, 114, 101, 115>>, <<>>>>,  \* 36 => ("expires", "")
       <<<<102, 114, 111, 109>>, <<>>>>,  \* 37 => ("from", "")
       <<<<104, 111, 115, 116>>, <<>>>>,  \* 38 => ("host", "")
       <<<<105, 102, 45, 109, 97, 116, 99, 104>>, <<>>>>,  \* 39 => ("if-match", "")
       <<<<105, 102, 45, 109, 111, 100, 105, 102, 105, 101, 100, 45, 115, 105, 110, 99, 101>>, <<>>>>,  \* 40 => ("if-modified-since", "")
       <<<<105, 102, 45, 110, 111, 110, 101, 45, 109, 97, 116, 99, 104>>, <<>>>>,  \* 41 => ("if-none-match", "")
       <<<<105, 102, 45, 114, 97, 110, 103, 101>>, <<>>>>,  \* 42 => ("if-range", "")
       <<<<105, 102, 45, 117, 110, 109, 111, 100, 105, 102, 105, 101, 100, 45, 115, 105, 110, 99, 101>>, <<>>>>,  \* 43 => ("if-unmodified-since", "")
       <<<<108, 97, 115, 116, 45, 109, 111, 100, 105, 102, 105, 101, 100>>, <<>>>>,  \* 44 => ("last-modified", "")
       <<<<108, 105, 110, 107>>, <<>>>>,  \* 45 => ("link", "")
       <<<<108, 111, 99, 97, 116, 105, 111, 110>>, <<>>>>,  \* 46 => ("location", "")
       <<<<109, 97, 120, 45, 102, 111, 114, 119, 97, 114, 100, 115>>, <<>>>>,  \* 47 => ("max-forwards", "")
       <<<<112, 114, 111, 120, 121, 45, 97, 117, 116, 104, 101, 110, 116, 105, 99, 97, 116, 101>>, <<>>>>,  \* 48 => ("proxy-authenticate", "")
       <<<<112, 114, 111, 120, 121, 45, 97, 117, 116, 104, 111, 114, 105, 122, 97, 116, 105, 111, 110>>, <<>>>>,  \* 49 => ("proxy-authorization", "")
       <<<<114, 97, 110, 103, 101>>, <<>>>>,  \* 50 => ("range", "")
       <<<<114, 101, 102, 101, 114, 101, 114>>, <<>>>>,  \* 51 => ("referer", "")
       <<<<114, 101, 102, 114, 101, 115, 104>>, <<>>>>,  \* 52 => ("refresh", "")
       <<<<114, 101, 116, 114, 121, 45, 97, 102, 116, 101, 114>>, <<>>>>,  \* 53 => ("retry-after", "")
       <<<<115, 101, 114, 118, 101, 114>>, <<>>>>,  \* 54 => ("server", "")
       <<<<115, 101, 116, 45, 99, 111, 111, 107, 105, 101>>, <<>>>>,  \* 55 => ("set-cookie", "")
       <<<<115, 116, 114, 105, 99, 116, 45, 116, 114, 97, 110, 115, 112, 111, 114, 116, 45, 115, 101, 99, 117, 114, 105, 116, 121>>, <<>>>>,  \* 56 => ("strict-transport-security", "")
       <<<<116, 114, 97, 110, 115, 102, 101, 114, 45, 101, 110, 99, 111, 100, 105, 110, 103>>, <<>>>>,  \* 57 => ("transfer-encoding", "")
       <<<<117, 115, 101, 114, 45, 97, 103, 101, 110, 116>>, <<>>>>,  \* 58 => ("user-agent", "")
       <<<<118, 97, 114, 121>>, <<>>>>,  \* 59 => ("vary", "")
       <<<<118, 105, 97>>, <<>>>>,  \* 60 => ("via", "")
       <<<<119, 119, 119, 45, 97, 117, 116, 104, 101, 110, 116, 105, 99, 97, 116, 101>>, <<>>>>  \* 61 => ("www-authenticate", "")
    >>

----------------------------------------------------------------------------
(* nom results *)
Ok(rem, val) == [kind |-> "Ok", rem |-> rem, val |-> val]
Error(rem) == [kind |-> "Error", rem |-> rem]
Incomplete == [kind |-> "Incomplete"]

(* A slice or Vec access outside its bounds: the thread panics *)
Panic == [kind |-> "Panic"]

HTTP2FrameHeaderBlock(name, value, error, sizeupdate) ==
    [name |-> name, value |-> value, error |-> error, sizeupdate |-> sizeupdate]

HTTP2DynTable(t, cs, ms, ov) ==
    [table |-> t, current_size |-> cs, max_size |-> ms, overflow |-> ov]

Drop(s, n) == SubSeq(s, n + 1, Len(s))

(* A big-endian unsigned integer, as take_bits! and be_u16 accumulate it *)
RECURSIVE BeUint(_)
BeUint(bytes) ==
    IF bytes = <<>> THEN 0
    ELSE BeUint(SubSeq(bytes, 1, Len(bytes) - 1)) * 256 + bytes[Len(bytes)]

(* Rust checks v[pos] against 0..v.len() *)
InBounds(v, pos) == pos \in 0..(Len(v) - 1)

(* What a lookup yields when its table access panics *)
Panicked == HTTP2FrameHeaderBlock(<<>>, <<>>, "panic", 0)

(* Mutant: the cost leaves the value out *)
EntryCost_novalue(h) == 32 + Len(h.name)

(* 32 + name.len() + value.len() *)
EntryCost(h) == 32 + Len(h.name) + Len(h.value)

----------------------------------------------------------------------------
(* match n { 1 => ..., 61 => ..., _ => ("", "") }, then the dynamic table.  *)
(* Every path returns Some.                                                *)
(* Mutant: the dynamic index counted from the oldest entry *)
http2_frame_header_static_oldest(n, dyn_headers) ==
    IF n \in 1..HTTP2_STATIC_HEADERS_NUMBER
    THEN [some |-> TRUE,
          h |-> HTTP2FrameHeaderBlock(StaticTable[n][1], StaticTable[n][2], Success, 0)]
    ELSE IF n = 0
    THEN [some |-> TRUE, h |-> HTTP2FrameHeaderBlock(<<>>, <<>>, Index0, 0)]
    ELSE IF Len(dyn_headers.table) + HTTP2_STATIC_HEADERS_NUMBER < n
    THEN [some |-> TRUE, h |-> HTTP2FrameHeaderBlock(<<>>, <<>>, NotIndexed, 0)]
    ELSE [some |-> TRUE,
          h |-> HTTP2FrameHeaderBlock(
                    dyn_headers.table[n - HTTP2_STATIC_HEADERS_NUMBER].name,
                    dyn_headers.table[n - HTTP2_STATIC_HEADERS_NUMBER].value,
                    Success, 0)]

(* Mutant: the bound check lets index 61 + len + 1 through as a Success *)
http2_frame_header_static_bound(n, dyn_headers) ==
    IF n \in 1..HTTP2_STATIC_HEADERS_NUMBER
    THEN [some |-> TRUE,
          h |-> HTTP2FrameHeaderBlock(StaticTable[n][1], StaticTable[n][2], Success, 0)]
    ELSE IF n = 0
    THEN [some |-> TRUE, h |-> HTTP2FrameHeaderBlock(<<>>, <<>>, Index0, 0)]
    ELSE IF Len(dyn_headers.table) + HTTP2_STATIC_HEADERS_NUMBER + 1 < n
    THEN [some |-> TRUE, h |-> HTTP2FrameHeaderBlock(<<>>, <<>>, NotIndexed, 0)]
    ELSE [some |-> TRUE, h |-> HTTP2FrameHeaderBlock(<<>>, <<>>, Success, 0)]

(* Mutant: index 0 is not told apart and goes on to the dynamic table *)
http2_frame_header_static_noindex0(n, dyn_headers) ==
    IF n \in 1..HTTP2_STATIC_HEADERS_NUMBER
    THEN [some |-> TRUE,
          h |-> HTTP2FrameHeaderBlock(StaticTable[n][1], StaticTable[n][2], Success, 0)]
    ELSE IF Len(dyn_headers.table) + HTTP2_STATIC_HEADERS_NUMBER < n
    THEN [some |-> TRUE, h |-> HTTP2FrameHeaderBlock(<<>>, <<>>, NotIndexed, 0)]
    ELSE IF ~InBounds(dyn_headers.table,
                      Len(dyn_headers.table) - (n - HTTP2_STATIC_HEADERS_NUMBER))
    THEN [some |-> TRUE, h |-> Panicked]
    ELSE [some |-> TRUE,
          h |-> HTTP2FrameHeaderBlock(
                    dyn_headers.table[Len(dyn_headers.table)
                                      - (n - HTTP2_STATIC_HEADERS_NUMBER) + 1].name,
                    dyn_headers.table[Len(dyn_headers.table)
                                      - (n - HTTP2_STATIC_HEADERS_NUMBER) + 1].value,
                    Success, 0)]

(* Mutant: the static table ends at index 60 *)
http2_frame_header_static_sixty(n, dyn_headers) ==
    IF n \in 1..(HTTP2_STATIC_HEADERS_NUMBER - 1)
    THEN [some |-> TRUE,
          h |-> HTTP2FrameHeaderBlock(StaticTable[n][1], StaticTable[n][2], Success, 0)]
    ELSE IF n = 0
    THEN [some |-> TRUE, h |-> HTTP2FrameHeaderBlock(<<>>, <<>>, Index0, 0)]
    ELSE IF Len(dyn_headers.table) + HTTP2_STATIC_HEADERS_NUMBER < n
    THEN [some |-> TRUE, h |-> HTTP2FrameHeaderBlock(<<>>, <<>>, NotIndexed, 0)]
    ELSE IF ~InBounds(dyn_headers.table,
                      Len(dyn_headers.table) - (n - HTTP2_STATIC_HEADERS_NUMBER))
    THEN [some |-> TRUE, h |-> Panicked]
    ELSE [some |-> TRUE,
          h |-> HTTP2FrameHeaderBlock(
                    dyn_headers.table[Len(dyn_headers.table)
                                      - (n - HTTP2_STATIC_HEADERS_NUMBER) + 1].name,
                    dyn_headers.table[Len(dyn_headers.table)
                                      - (n - HTTP2_STATIC_HEADERS_NUMBER) + 1].value,
                    Success, 0)]

(* Mutant: no check of the index against the table length *)
http2_frame_header_static_nocheck(n, dyn_headers) ==
    IF n \in 1..HTTP2_STATIC_HEADERS_NUMBER
    THEN [some |-> TRUE,
          h |-> HTTP2FrameHeaderBlock(StaticTable[n][1], StaticTable[n][2], Success, 0)]
    ELSE IF n = 0
    THEN [some |-> TRUE, h |-> HTTP2FrameHeaderBlock(<<>>, <<>>, Index0, 0)]
    ELSE IF ~InBounds(dyn_headers.table,
                      Len(dyn_headers.table) - (n - HTTP2_STATIC_HEADERS_NUMBER))
    THEN [some |-> TRUE, h |-> Panicked]
    ELSE [some |-> TRUE,
          h |-> HTTP2FrameHeaderBlock(
                    dyn_headers.table[Len(dyn_headers.table)
                                      - (n - HTTP2_STATIC_HEADERS_NUMBER) + 1].name,
                    dyn_headers.table[Len(dyn_headers.table)
                                      - (n - HTTP2_STATIC_HEADERS_NUMBER) + 1].value,
                    Success, 0)]

http2_frame_header_static(n, dyn_headers) ==
    LET nv == IF n \in 1..HTTP2_STATIC_HEADERS_NUMBER
              THEN StaticTable[n] ELSE <<<<>>, <<>>>>
        name == nv[1]
        value == nv[2]
    IN  IF Len(name) > 0
        THEN [some |-> TRUE, h |-> HTTP2FrameHeaderBlock(name, value, Success, 0)]
        ELSE IF n = 0
        THEN [some |-> TRUE, h |-> HTTP2FrameHeaderBlock(<<>>, <<>>, Index0, 0)]
        ELSE IF Len(dyn_headers.table) + HTTP2_STATIC_HEADERS_NUMBER < n
        THEN [some |-> TRUE, h |-> HTTP2FrameHeaderBlock(<<>>, <<>>, NotIndexed, 0)]
        ELSE LET indyn == Len(dyn_headers.table) - (n - HTTP2_STATIC_HEADERS_NUMBER)
             IN  \* Rust indexes from 0
                 IF ~InBounds(dyn_headers.table, indyn)
                 THEN [some |-> TRUE, h |-> Panicked]
                 ELSE [some |-> TRUE,
                       h |-> HTTP2FrameHeaderBlock(dyn_headers.table[indyn + 1].name,
                                                   dyn_headers.table[indyn + 1].value,
                                                   Success, 0)]

(* take_while!(input, |ch| (ch & 0x80) != 0): the length of the matched run *)
RECURSIVE HighBitRun(_)
HighBitRun(input) ==
    IF input = <<>> \/ Head(input) < 128 THEN 0 ELSE 1 + HighBitRun(Tail(input))

(***************************************************************************)
(* u64 arithmetic of http2_parse_var_uint.  TLC's integers are 32 bits      *)
(* wide, so the accumulator is kept as base-128 digits, least significant   *)
(* first: digit i holds bits 7i..7i+6, and 2^64 = 2 * 128^9.                *)
(***************************************************************************)
RECURSIVE AddAt(_, _, _)
AddAt(ds, p, v) ==
    IF v = 0 THEN ds
    ELSE IF p > Len(ds) THEN AddAt(Append(ds, 0), p, v)
    ELSE AddAt([ds EXCEPT ![p] = (ds[p] + v) % 128], p + 1, (ds[p] + v) \div 128)

ExceedsU64(ds) ==
    \E p \in 1..Len(ds) : (p > 10 /\ ds[p] # 0) \/ (p = 10 /\ ds[p] >= 2)

RECURSIVE DigitsValue(_)
DigitsValue(ds) == IF ds = <<>> THEN 0 ELSE Head(ds) + 128 * DigitsValue(Tail(ds))

(* Ok((i3, varval)) with the u64 varval as digits; <<>> is 0 *)
OkU64(rem, ds) == [kind |-> "Ok", rem |-> rem, digits |-> ds]

(* varval after "for i in 0..varia.len()": max plus the continuation bytes *)
ContinuationSum(input, n, max) == AddAt([i \in 1..n |-> input[i] % 128], 1, max)

(* finalv << (7 * varia.len()) *)
FinalTerm(input, n) == AddAt([i \in 1..n |-> 0], n + 1, input[n + 1])

(* "if (finalv << 7n) > u64::MAX - varval { return Ok((i3, 0)) }", else the  *)
(* sum; total is varval + (finalv << 7n)                                    *)
VarUintSum(i3, total) ==
    IF ExceedsU64(total) THEN OkU64(i3, <<>>) ELSE OkU64(i3, total)

(* Mutant: no limit on the number of continuation bytes *)
VarUintTail_nolimit(input, n, max) ==
    IF n = Len(input)
    THEN Incomplete
    ELSE VarUintSum(Drop(input, n + 1),
                    AddAt(ContinuationSum(input, n, max), n + 1, input[n + 1]))

(* Mutant: the terminating byte is consumed but not added *)
VarUintTail_nofinal(input, n, max) ==
    IF n = Len(input)
    THEN Incomplete
    ELSE IF n > 9 \/ (n = 9 /\ input[n + 1] > 1)
    THEN OkU64(Drop(input, n + 1), <<>>)
    ELSE VarUintSum(Drop(input, n + 1), ContinuationSum(input, n, max))

(* After take_while: n continuation bytes, then the final byte *)
VarUintTail(input, n, max) ==
    IF n = Len(input)
    THEN Incomplete  \* streaming take_while / be_u8 ran out of input
    ELSE IF n > 9 \/ (n = 9 /\ input[n + 1] > 1)
    THEN OkU64(Drop(input, n + 1), <<>>)
    ELSE \* max + sum of (varia[i] & 0x7F) << (7 * i), + finalv << (7 * varia.len())
         VarUintSum(Drop(input, n + 1),
                    AddAt(ContinuationSum(input, n, max), n + 1, input[n + 1]))

(* http2_parse_var_uint with its u64 result as digits *)
http2_parse_var_uint_u64(input, value, max) ==
    IF value < max THEN OkU64(input, AddAt(<<>>, 1, value))
    ELSE VarUintTail(input, HighBitRun(input), max)

(* The same result with the value as a number, as the field decoders use it *)
AsNumber(w) == IF w.kind = "Ok" THEN Ok(w.rem, DigitsValue(w.digits)) ELSE w

http2_parse_var_uint(input, value, max) ==
    AsNumber(http2_parse_var_uint_u64(input, value, max))

(* The Huffman decoder is a collaborator (huffman.rs): a total decode that  *)
(* yields one symbol for a byte below 0x80 and two for a byte above.       *)
HuffmanSymbols(b) == IF b < 128 THEN <<97 + (b % 2)>> ELSE <<97 + (b % 2), 98>>

RECURSIVE http2_decode_huffman(_)
http2_decode_huffman(data) ==
    IF data = <<>> THEN <<>>
    ELSE IF Len(data) = 1 THEN HuffmanSymbols(data[1])
    ELSE http2_decode_huffman(SubSeq(data, 1, Len(data) \div 2))
             \o http2_decode_huffman(SubSeq(data, Len(data) \div 2 + 1, Len(data)))

(* Mutant: a payload cut short is returned as the value *)
StringData_nocheck(huff, slen, r) ==
    IF r.kind # "Ok" THEN r
    ELSE IF r.val = 0 /\ slen = 127 THEN Error(r.rem)
    ELSE IF Len(r.rem) < r.val THEN Ok(<<>>, r.rem)
    ELSE IF huff = 0 THEN Ok(Drop(r.rem, r.val), SubSeq(r.rem, 1, r.val))
    ELSE Ok(Drop(r.rem, r.val), http2_decode_huffman(SubSeq(r.rem, 1, r.val)))

(* The string after its length r was decoded: huff and slen are the two     *)
(* fields of the first byte.                                                *)
StringData(huff, slen, r) ==
    IF r.kind # "Ok" THEN r
    ELSE IF r.val = 0 /\ slen = 127 THEN Error(r.rem)
    ELSE IF Len(r.rem) < r.val THEN Incomplete  \* take!(i2, stringlen)
    ELSE IF huff = 0 THEN Ok(Drop(r.rem, r.val), SubSeq(r.rem, 1, r.val))
    ELSE Ok(Drop(r.rem, r.val), http2_decode_huffman(SubSeq(r.rem, 1, r.val)))

http2_parse_headers_block_string(input) ==
    IF input = <<>> THEN Incomplete
    ELSE StringData(input[1] \div 128, input[1] % 128,
                    http2_parse_var_uint(Tail(input), input[1] % 128, 127))

(* "if indexreal == 0 && indexed.1 == max { return Err(...LengthValue) }"   *)
(* applied to the result v of http2_parse_var_uint                          *)
CheckedIndex(indexed, max, v) ==
    IF v.kind # "Ok" THEN v
    ELSE IF v.val = 0 /\ indexed = max THEN Error(v.rem)
    ELSE v

IndexedResult(i3, o) ==
    IF o.h = Panicked THEN Panic
    ELSE IF o.some THEN Ok(i3, o.h) ELSE Error(i3)

IndexedLookup(v, dyn_headers) ==
    IF v.kind # "Ok" THEN v
    ELSE IndexedResult(v.rem, http2_frame_header_static(v.val, dyn_headers))

http2_parse_headers_block_indexed(input, dyn_headers) ==
    IF input[1] \div 128 # 1 THEN Error(input)
    ELSE IndexedLookup(
             CheckedIndex(input[1] % 128, 127,
                          http2_parse_var_uint(Tail(input), input[1] % 128, 127)),
             dyn_headers)

(* The name of a literal: (i3, name, error) or the string decoder's error   *)
NameFromString(s) ==
    IF s.kind = "Ok"
    THEN [kind |-> "Ok", rem |-> s.rem, name |-> s.val, error |-> Success]
    ELSE s

NameFromIndex(input, o) ==
    IF o.h = Panicked THEN Panic
    ELSE IF o.some
    THEN [kind |-> "Ok", rem |-> input, name |-> o.h.name, error |-> Success]
    ELSE [kind |-> "Ok", rem |-> input, name |-> <<>>, error |-> NotIndexed]

LiteralHead(nm, v) ==
    IF v.kind # "Ok" THEN v
    ELSE Ok(v.rem, HTTP2FrameHeaderBlock(nm.name, v.val, nm.error, 0))

LiteralValue(nm) ==
    IF nm.kind # "Ok" THEN nm
    ELSE LiteralHead(nm, http2_parse_headers_block_string(nm.rem))

http2_parse_headers_block_literal_common(input, index, dyn_headers) ==
    LiteralValue(IF index = 0
                 THEN NameFromString(http2_parse_headers_block_string(input))
                 ELSE NameFromIndex(input, http2_frame_header_static(index, dyn_headers)))

(* literal_common on what follows the index v *)
LiteralAfterIndex(v, dyn_headers) ==
    IF v.kind # "Ok" THEN v
    ELSE http2_parse_headers_block_literal_common(v.rem, v.val, dyn_headers)

(* Mutant: the loop also evicts when current_size equals the limit *)
RECURSIVE EvictLoop_ge(_, _, _, _)
EvictLoop_ge(t, cs, limit, toremove) ==
    IF cs >= limit /\ toremove < Len(t)
    THEN EvictLoop_ge(t, cs - EntryCost(t[toremove + 1]), limit, toremove + 1)
    ELSE [current_size |-> cs, toremove |-> toremove]

(* Mutant: the loop counts the entries to drain and subtracts no cost *)
RECURSIVE EvictLoop_uncounted(_, _, _, _)
EvictLoop_uncounted(t, cs, limit, toremove) ==
    IF cs > limit /\ toremove < Len(t)
    THEN EvictLoop_uncounted(t, cs, limit, toremove + 1)
    ELSE [current_size |-> cs, toremove |-> toremove]

(* The eviction loop shared by insertion and size update: the state after   *)
(* "while current_size > limit && toremove < table.len()".                  *)
RECURSIVE EvictLoop(_, _, _, _)
EvictLoop(t, cs, limit, toremove) ==
    IF cs > limit /\ toremove < Len(t)
    THEN EvictLoop(t, cs - EntryCost(t[toremove + 1]), limit, toremove + 1)
    ELSE [current_size |-> cs, toremove |-> toremove]

(* Mutant: Pending compares with the negotiated max_size, not the ceiling *)
StorageDecision_max_size(dyn_headers, cs) ==
    IF dyn_headers.overflow > 0
    THEN IF dyn_headers.overflow = 1
         THEN IF cs <= dyn_headers.max_size
              THEN [push |-> TRUE, overflow |-> dyn_headers.overflow]
              ELSE [push |-> FALSE, overflow |-> 2]
         ELSE [push |-> FALSE, overflow |-> dyn_headers.overflow]
    ELSE [push |-> TRUE, overflow |-> dyn_headers.overflow]

(* Mutant: an Overflowed table stores again once the entry fits *)
StorageDecision_refill(dyn_headers, cs) ==
    IF dyn_headers.overflow > 0
    THEN IF dyn_headers.overflow = 1
         THEN IF cs <= HTTP2_MAX_TABLESIZE
              THEN [push |-> TRUE, overflow |-> dyn_headers.overflow]
              ELSE IF cs > dyn_headers.max_size
              THEN [push |-> FALSE, overflow |-> 2]
              ELSE [push |-> FALSE, overflow |-> dyn_headers.overflow]
         ELSE [push |-> cs <= dyn_headers.max_size, overflow |-> dyn_headers.overflow]
    ELSE [push |-> TRUE, overflow |-> dyn_headers.overflow]

(* The storage decision: whether headcopy is pushed, and the overflow state *)
(* it leaves; cs is current_size with the entry's cost already added.       *)
StorageDecision(dyn_headers, cs) ==
    IF dyn_headers.overflow > 0
    THEN IF dyn_headers.overflow = 1
         THEN IF cs <= HTTP2_MAX_TABLESIZE
              THEN [push |-> TRUE, overflow |-> dyn_headers.overflow]
              ELSE IF cs > dyn_headers.max_size
              THEN [push |-> FALSE, overflow |-> 2]
              ELSE [push |-> FALSE, overflow |-> dyn_headers.overflow]
         ELSE [push |-> FALSE, overflow |-> dyn_headers.overflow]
    ELSE [push |-> TRUE, overflow |-> dyn_headers.overflow]

(* Mutant: the newest entries are drained instead of the oldest *)
Drained_newest(t, e, ms, ov) ==
    HTTP2DynTable(SubSeq(t, 1, Len(t) - e.toremove), e.current_size, ms, ov)

(* table.drain(0..toremove) with the loop's current_size *)
Drained(t, e, ms, ov) == HTTP2DynTable(Drop(t, e.toremove), e.current_size, ms, ov)

(* The table after the storage decision d, then the eviction *)
Stored(dyn_headers, head, cs, d) ==
    IF d.push
    THEN Drained(Append(dyn_headers.table, head),
                 EvictLoop(Append(dyn_headers.table, head), cs, dyn_headers.max_size, 0),
                 dyn_headers.max_size, d.overflow)
    ELSE Drained(dyn_headers.table,
                 EvictLoop(dyn_headers.table, cs, dyn_headers.max_size, 0),
                 dyn_headers.max_size, d.overflow)

(* Mutant: the entry is stored without its cost being added *)
DynInsert_uncounted(dyn_headers, head) ==
    Stored(dyn_headers,
           HTTP2FrameHeaderBlock(head.name, head.value, head.error, 0),
           dyn_headers.current_size,
           StorageDecision(dyn_headers, dyn_headers.current_size))

(* The table mutation of a Success head (parser.rs 444-469) *)
DynInsert(dyn_headers, head) ==
    Stored(dyn_headers,
           HTTP2FrameHeaderBlock(head.name, head.value, head.error, 0),
           dyn_headers.current_size + EntryCost(head),
           StorageDecision(dyn_headers, dyn_headers.current_size + EntryCost(head)))

IncindexInsert(r, dyn_headers) ==
    IF r.kind # "Ok" THEN r
    ELSE IF r.val.error = Success
    THEN [kind |-> "Ok", rem |-> r.rem, val |-> r.val,
          dyn |-> DynInsert(dyn_headers, r.val)]
    ELSE r

http2_parse_headers_block_literal_incindex(input, dyn_headers) ==
    IF input[1] \div 64 # 1 THEN Error(input)
    ELSE IncindexInsert(
             LiteralAfterIndex(
                 CheckedIndex(input[1] % 64, 63,
                              http2_parse_var_uint(Tail(input), input[1] % 64, 63)),
                 dyn_headers),
             dyn_headers)

(* Mutant: the variant without indexing inserts like the indexing one *)
http2_parse_headers_block_literal_noindex_insert(input, dyn_headers) ==
    IF input[1] \div 16 # 0 THEN Error(input)
    ELSE IncindexInsert(
             LiteralAfterIndex(
                 CheckedIndex(input[1] % 16, 15,
                              http2_parse_var_uint(Tail(input), input[1] % 16, 15)),
                 dyn_headers),
             dyn_headers)

http2_parse_headers_block_literal_noindex(input, dyn_headers) ==
    IF input[1] \div 16 # 0 THEN Error(input)
    ELSE LiteralAfterIndex(
             CheckedIndex(input[1] % 16, 15,
                          http2_parse_var_uint(Tail(input), input[1] % 16, 15)),
             dyn_headers)

http2_parse_headers_block_literal_neverindex(input, dyn_headers) ==
    IF input[1] \div 16 # 1 THEN Error(input)
    ELSE LiteralAfterIndex(
             CheckedIndex(input[1] % 16, 15,
                          http2_parse_var_uint(Tail(input), input[1] % 16, 15)),
             dyn_headers)

(* Mutant: the size update evicts down to max_size, not to the new size *)
DynResize_max_size(dyn_headers, maxsize2) ==
    IF maxsize2 < dyn_headers.max_size
    THEN Drained(dyn_headers.table,
                 EvictLoop(dyn_headers.table, dyn_headers.current_size,
                           dyn_headers.max_size, 0),
                 dyn_headers.max_size, dyn_headers.overflow)
    ELSE dyn_headers

(* Mutant: the size update also assigns max_size *)
DynResize_assign(dyn_headers, maxsize2) ==
    IF maxsize2 < dyn_headers.max_size
    THEN Drained(dyn_headers.table,
                 EvictLoop(dyn_headers.table, dyn_headers.current_size, maxsize2, 0),
                 maxsize2, dyn_headers.overflow)
    ELSE dyn_headers

(* The eviction of a size update below max_size (parser.rs 567-580) *)
DynResize(dyn_headers, maxsize2) ==
    IF maxsize2 < dyn_headers.max_size
    THEN Drained(dyn_headers.table,
                 EvictLoop(dyn_headers.table, dyn_headers.current_size, maxsize2, 0),
                 dyn_headers.max_size, dyn_headers.overflow)
    ELSE dyn_headers

(* Mutant: the sentinel 0 is taken for a size update to 0 *)
SizeUpdateField_nosentinel(maxsize, v, dyn_headers) ==
    IF v.kind # "Ok" THEN v
    ELSE [kind |-> "Ok", rem |-> v.rem,
          val |-> HTTP2FrameHeaderBlock(<<>>, <<>>, SizeUpdate, v.val),
          dyn |-> DynResize(dyn_headers, v.val)]

(* Mutant: the size update evicts down to its 5-bit prefix before the rest *)
(* of its integer is read                                                   *)
SizeUpdateField_eager(maxsize, v, dyn_headers) ==
    IF v.kind # "Ok"
    THEN [kind |-> v.kind, rem |-> <<>>, dyn |-> DynResize(dyn_headers, maxsize)]
    ELSE IF v.val = 0 /\ maxsize = 31
    THEN Ok(v.rem, HTTP2FrameHeaderBlock(<<>>, <<>>, IntegerOverflow, 0))
    ELSE [kind |-> "Ok", rem |-> v.rem,
          val |-> HTTP2FrameHeaderBlock(<<>>, <<>>, SizeUpdate, v.val),
          dyn |-> DynResize(dyn_headers, v.val)]

(* The size update after its VarInt v; maxsize is the 5-bit prefix *)
SizeUpdateField(maxsize, v, dyn_headers) ==
    IF v.kind # "Ok" THEN v
    ELSE IF v.val = 0 /\ maxsize = 31
    THEN Ok(v.rem, HTTP2FrameHeaderBlock(<<>>, <<>>, IntegerOverflow, 0))
    ELSE [kind |-> "Ok", rem |-> v.rem,
          val |-> HTTP2FrameHeaderBlock(<<>>, <<>>, SizeUpdate, v.val),
          dyn |-> DynResize(dyn_headers, v.val)]

(* Mutant: the size update returns its input as the remainder *)
http2_parse_headers_block_dynamic_size_peek(input, dyn_headers) ==
    IF input[1] \div 32 # 1 THEN Error(input)
    ELSE [SizeUpdateField(input[1] % 32,
                          http2_parse_var_uint(Tail(input), input[1] % 32, 31),
                          dyn_headers) EXCEPT !.rem = input]

http2_parse_headers_block_dynamic_size(input, dyn_headers) ==
    IF input[1] \div 32 # 1 THEN Error(input)
    ELSE SizeUpdateField(input[1] % 32,
                         http2_parse_var_uint(Tail(input), input[1] % 32, 31),
                         dyn_headers)

(* input[0] & mask != 0 *)
BitSet(b, mask) == (b \div mask) % 2 = 1

NoHead == HTTP2FrameHeaderBlock(<<>>, <<>>, "HTTP2HeaderDecodeError", 0)

(* Mutant: a failed field decode empties the table *)
WithTable_cleared(r, dyn_headers) ==
    [kind |-> r.kind,
     rem |-> IF r.kind = "Ok" THEN r.rem ELSE <<>>,
     val |-> IF r.kind = "Ok" THEN r.val ELSE NoHead,
     dyn |-> IF "dyn" \in DOMAIN r THEN r.dyn
             ELSE IF r.kind = "Ok" THEN dyn_headers
             ELSE HTTP2DynTable(<<>>, 0, dyn_headers.max_size, dyn_headers.overflow)]

(* A sub-decoder's result with the table the call leaves: the one it was    *)
(* given unless the sub-decoder changed it.  An Err carries no field.       *)
WithTable(r, dyn_headers) ==
    [kind |-> r.kind,
     rem |-> IF r.kind = "Ok" THEN r.rem ELSE <<>>,
     val |-> IF r.kind = "Ok" THEN r.val ELSE NoHead,
     dyn |-> IF "dyn" \in DOMAIN r THEN r.dyn ELSE dyn_headers]

(* Mutant: the test of 0x40 comes before the test of 0x80 *)
http2_parse_headers_block_order(input, dyn_headers) ==
    WithTable(IF input = <<>>
              THEN Panic
              ELSE IF BitSet(input[1], 64)
              THEN http2_parse_headers_block_literal_incindex(input, dyn_headers)
              ELSE IF BitSet(input[1], 128)
              THEN http2_parse_headers_block_indexed(input, dyn_headers)
              ELSE IF BitSet(input[1], 32)
              THEN http2_parse_headers_block_dynamic_size(input, dyn_headers)
              ELSE IF BitSet(input[1], 16)
              THEN http2_parse_headers_block_literal_neverindex(input, dyn_headers)
              ELSE http2_parse_headers_block_literal_noindex(input, dyn_headers),
              dyn_headers)

http2_parse_headers_block(input, dyn_headers) ==
    WithTable(IF input = <<>>
              THEN Panic  \* input[0] on an empty slice
              ELSE IF BitSet(input[1], 128)
              THEN http2_parse_headers_block_indexed(input, dyn_headers)
              ELSE IF BitSet(input[1], 64)
              THEN http2_parse_headers_block_literal_incindex(input, dyn_headers)
              ELSE IF BitSet(input[1], 32)
              THEN http2_parse_headers_block_dynamic_size(input, dyn_headers)
              ELSE IF BitSet(input[1], 16)
              THEN http2_parse_headers_block_literal_neverindex(input, dyn_headers)
              ELSE http2_parse_headers_block_literal_noindex(input, dyn_headers),
              dyn_headers)

----------------------------------------------------------------------------
(* The encoded header fields the model feeds to the decoder *)
Repeat(b, n) == [i \in 1..n |-> b]

(* A VarInt tail that overflows: ten continuation bytes, or a sum past u64 *)
TooLong == Repeat(128, 10) \o <<0>>
TooBig == Repeat(255, 9) \o <<1>>

IndexedInputs ==
    { <<130>>,            \* 0x82: static index 2
      <<190>>,            \* 0xbe: index 62, the newest dynamic entry
      <<191>>,            \* 0xbf: index 63
      <<192>>,            \* 0xc0: index 64
      <<128>> }           \* 0x80: index 0
IncindexInputs ==
    { <<64, 1, 97, 1, 98>>,   \* literal name "a", value "b"
      <<126, 1, 99>>,         \* name index 62, value "c"
      <<65, 0>>,              \* name index 1 (:authority), empty value
      <<64, 1>> }             \* cut short
NoindexInputs ==
    { <<0, 1, 97, 1, 98>>,    \* literal name "a", value "b"
      <<0, 129, 200, 0>>,     \* Huffman-coded name of one byte, empty value
      <<1, 0>>,               \* name index 1 (:authority), empty value
      <<15, 47, 0, 130>> }    \* name index 15 + 47 = 62, empty value, one byte left
NeverindexInputs ==
    { <<16, 1, 97, 0>>,       \* literal name "a", empty value
      <<31, 47, 0>> }         \* name index 15 + 47 = 62, empty value
SizeUpdateInputs ==
    { <<32>>,                 \* new size 0
      <<63, 9>>,              \* new size 31 + 9 = 40
      <<63, 39>>,             \* new size 31 + 39 = 70
      <<63>> }                \* cut short
OverflowInputs ==
    { <<255>> \o TooLong,          \* Indexed, index overflows
      <<127>> \o TooBig \o <<0>>,  \* incremental indexing, name index overflows
      <<15>> \o TooLong \o <<0>>,  \* without indexing, name index overflows
      <<31>> \o TooBig \o <<0>>,   \* never indexed, name index overflows
      <<0, 127>> \o TooLong,       \* literal name whose length overflows
      <<65, 127>> \o TooBig,       \* incremental indexing, value length overflows
      <<63>> \o TooLong,           \* size update, size overflows
      <<63>> \o TooBig \o <<130>> } \* the same, one byte left
Inputs ==
    IndexedInputs \cup IncindexInputs \cup NoindexInputs
        \cup NeverindexInputs \cup SizeUpdateInputs \cup OverflowInputs

Dyn == HTTP2DynTable(table, current_size, max_size, overflow)

NoVarInt == [input |-> <<>>, value |-> 0, max |-> 0, res |-> [kind |-> "None"]]

NoFrame == [decoder |-> "none", input |-> <<>>, flags |-> 0,
            padlength |-> <<>>, priority |-> <<>>,
            pre |-> HTTP2DynTable(<<>>, 0, 0, 0), status |-> "None",
            i3 |-> <<>>, blocks |-> <<>>]

NoStateless == [decoder |-> "none", input |-> <<>>, res |-> [kind |-> "None"]]

NoCall == [input |-> <<>>, pre |-> HTTP2DynTable(<<>>, 0, 0, 0),
           res |-> [kind |-> "None", rem |-> <<>>, val |-> NoHead]]

(* The cost a call adds to current_size without pushing the entry *)
Unstored(input, dyn, r) ==
    IF /\ ~BitSet(input[1], 128) /\ BitSet(input[1], 64)
       /\ r.kind = "Ok" /\ r.val.error = Success
       /\ ~StorageDecision(dyn, dyn.current_size + EntryCost(r.val)).push
    THEN EntryCost(r.val) ELSE 0

Init ==
    /\ table = <<>>
    /\ current_size = 0
    /\ max_size \in NegotiatedSizes
    /\ overflow = 0
    /\ last = NoCall
    /\ notstored = 0
    /\ inserted = <<>>
    /\ varint = NoVarInt
    /\ frame = NoFrame
    /\ call = NoStateless

(* One call of http2_parse_headers_block on the connection's table, r its  *)
(* result                                                                   *)
Returned(input, r) ==
    /\ table' = r.dyn.table
    /\ current_size' = r.dyn.current_size
    /\ max_size' = r.dyn.max_size
    /\ overflow' = r.dyn.overflow
    /\ last' = [input |-> input, pre |-> Dyn,
                res |-> [kind |-> r.kind, rem |-> r.rem, val |-> r.val]]
    /\ notstored' = notstored + Unstored(input, Dyn, r)

Call(input) ==
    /\ current_size <= MaxCurrentSize
    /\ Returned(input, http2_parse_headers_block(input, Dyn))

ParseHeadersBlock ==
    \E input \in Inputs : Call(input) /\ UNCHANGED <<inserted, varint, call, frame>>

(* The owner applies the size of a SizeUpdate field to max_size *)
OwnerApplySizeUpdate ==
    /\ last.res.kind = "Ok"
    /\ last.res.val.error = SizeUpdate
    /\ max_size' = last.res.val.sizeupdate
    /\ last' = NoCall
    /\ UNCHANGED <<table, current_size, overflow, notstored, inserted, varint, call, frame>>

(* The owner negotiates another max_size *)
OwnerSetMaxSize ==
    /\ \E v \in NegotiatedSizes : max_size' = v
    /\ last' = NoCall
    /\ UNCHANGED <<table, current_size, overflow, notstored, inserted, varint, call, frame>>

(* The owner assigns the overflow field, a public u8 of the table *)
OwnerSetOverflow ==
    /\ frame.status # "Running"  \* a decode holds the table exclusively
    /\ \E o \in {0, 1, 2} : overflow' = o
    /\ last' = NoCall
    /\ frame' = NoFrame         \* the returned frame was taken before
    /\ UNCHANGED <<table, current_size, max_size, notstored, inserted, varint, call>>

Next ==
    \/ ParseHeadersBlock
    \/ OwnerApplySizeUpdate
    \/ OwnerSetMaxSize
    \/ OwnerSetOverflow

Spec == Init /\ [][Next]_vars

(* A table whose overflow field the owner never assigns: field decodes and  *)
(* the owner's changes of max_size, in any order.                           *)
NextClean ==
    \/ ParseHeadersBlock
    \/ OwnerApplySizeUpdate
    \/ OwnerSetMaxSize

SpecClean == Init /\ [][NextClean]_vars

(* A new table under a fixed max_size: only Literal-with-Incremental-       *)
(* Indexing fields are decoded, and the Success ones are logged.            *)
ParseLogged ==
    \E input \in IncindexInputs :
        /\ Len(inserted) < MaxInserted
        /\ Call(input)
        /\ inserted' = IF last'.res.kind = "Ok" /\ last'.res.val.error = Success
                       THEN Append(inserted, last'.res.val) ELSE inserted
        /\ UNCHANGED <<varint, call, frame>>

NextFixed == ParseLogged

SpecFixed == Init /\ [][NextFixed]_vars

----------------------------------------------------------------------------
(* The header-bearing frames.  A call is modelled in steps: the fixed part  *)
(* before the header block, then one step per iteration of                  *)
(* "while i3.len() > 0"; the table is borrowed for the whole call, so       *)
(* nothing else acts on it while frame.status is "Running".                 *)
HTTP2_FLAG_HEADER_PADDED == 8
HTTP2_FLAG_HEADER_PRIORITY == 32

(* cond!(input, present, be_u8) *)
CondU8(input, present) ==
    IF ~present THEN Ok(input, <<>>)
    ELSE IF input = <<>> THEN Incomplete
    ELSE Ok(Tail(input), <<Head(input)>>)

(* A fixed-width parser of n bytes after r (bits! and be_u8, streaming) *)
ThenBytes(r, present, n) ==
    IF r.kind # "Ok" \/ ~present THEN r
    ELSE IF Len(r.rem) < n THEN Incomplete
    ELSE Ok(Drop(r.rem, n), r.val)

HTTP2FrameHeadersPriority(exclusive, dependency, weight) ==
    [exclusive |-> exclusive, dependency |-> dependency, weight |-> weight]

(* 1 + 31 bits and a byte *)
http2_parse_headers_priority(input) ==
    IF Len(input) < 5 THEN Incomplete
    ELSE Ok(Drop(input, 5),
            HTTP2FrameHeadersPriority(
                input[1] \div 128,
                BeUint(<<input[1] % 128, input[2], input[3], input[4]>>),
                input[5]))

(* The two Options a frame keeps of its fixed part, None being <<>> *)
Fixed(padlength, priority) == [padlength |-> padlength, priority |-> priority]

(* Mutant: the declared padding is cut off the end of what is left *)
CondPriority_unpadded(r, p) ==
    IF r.kind # "Ok" \/ p.kind # "Ok" THEN (IF r.kind # "Ok" THEN r ELSE p)
    ELSE Ok(IF r.val = <<>> \/ r.val[1] > Len(p.rem) THEN p.rem
            ELSE SubSeq(p.rem, 1, Len(p.rem) - r.val[1]),
            Fixed(r.val, p.val))

(* cond!(i2, present, http2_parse_headers_priority) after the padlength r,  *)
(* p being the result of the cond!                                          *)
CondPriority(r, p) ==
    IF r.kind # "Ok" \/ p.kind # "Ok" THEN (IF r.kind # "Ok" THEN r ELSE p)
    ELSE Ok(p.rem, Fixed(r.val, p.val))

(* cond!(i2, present, http2_parse_headers_priority) *)
CondHeadersPriority(r, present) ==
    IF r.kind # "Ok" THEN r
    ELSE IF ~present THEN Ok(r.rem, <<>>)
    ELSE IF http2_parse_headers_priority(r.rem).kind # "Ok"
    THEN http2_parse_headers_priority(r.rem)
    ELSE Ok(http2_parse_headers_priority(r.rem).rem,
            <<http2_parse_headers_priority(r.rem).val>>)

(* padlength and priority of http2_parse_frame_headers: what is left is i3 *)
HeadersPrefixOf(padlength, present) ==
    CondPriority(padlength, CondHeadersPriority(padlength, present))

HeadersPrefix(input, flags) ==
    HeadersPrefixOf(CondU8(input, BitSet(flags, HTTP2_FLAG_HEADER_PADDED)),
                    BitSet(flags, HTTP2_FLAG_HEADER_PRIORITY))

(* The fixed part of a frame without priority *)
WithFixed(r) == IF r.kind = "Ok" THEN Ok(r.rem, Fixed(r.val, <<>>)) ELSE r

(* padlength and stream_id of http2_parse_frame_push_promise *)
PushPromisePrefix(input, flags) ==
    WithFixed(ThenBytes(CondU8(input, BitSet(flags, HTTP2_FLAG_HEADER_PADDED)),
                        TRUE, 4))

(* The call at the head of its loop, p being the result of the fixed part;  *)
(* an empty i3 skips the loop and returns Ok((i3, blocks))                 *)
Entered(decoder, input, flags, p, dyn_headers) ==
    [decoder |-> decoder, input |-> input, flags |-> flags, pre |-> dyn_headers,
     padlength |-> IF p.kind = "Ok" THEN p.val.padlength ELSE <<>>,
     priority |-> IF p.kind = "Ok" THEN p.val.priority ELSE <<>>,
     status |-> IF p.kind # "Ok" THEN p.kind
                ELSE IF p.rem = <<>> THEN "Ok" ELSE "Running",
     i3 |-> IF p.kind = "Ok" THEN p.rem ELSE <<>>,
     blocks |-> <<>>]

(* Mutant: a field with a status other than Success ends the block *)
LoopStep_softabort(f, r) ==
    IF r.kind = "Ok"
    THEN IF Len(f.i3) = Len(r.rem) \/ r.val.error # Success
         THEN [f EXCEPT !.blocks = Append(@, r.val), !.status = "Error"]
         ELSE [f EXCEPT !.blocks = Append(@, r.val), !.i3 = r.rem,
                        !.status = IF r.rem = <<>> THEN "Ok" ELSE "Running"]
    ELSE [f EXCEPT !.status = r.kind]

(* Mutant: the blocks are collected newest first *)
LoopStep_prepend(f, r) ==
    IF r.kind = "Ok"
    THEN IF Len(f.i3) = Len(r.rem)
         THEN [f EXCEPT !.blocks = <<r.val>> \o @, !.status = "Error"]
         ELSE [f EXCEPT !.blocks = <<r.val>> \o @, !.i3 = r.rem,
                        !.status = IF r.rem = <<>> THEN "Ok" ELSE "Running"]
    ELSE [f EXCEPT !.status = r.kind]

(* Mutant: the loop keeps i3 where it was *)
LoopStep_stuck(f, r) ==
    IF r.kind = "Ok"
    THEN [f EXCEPT !.blocks = Append(@, r.val)]
    ELSE [f EXCEPT !.status = r.kind]

(* One iteration of the loop on the result r of http2_parse_headers_block,  *)
(* and the test of the next "while i3.len() > 0"                           *)
LoopStep(f, r) ==
    IF r.kind = "Ok"
    THEN IF Len(f.i3) = Len(r.rem)
         THEN \* "infinite loop": Err(Err::Error((input, ErrorKind::Eof)))
              [f EXCEPT !.blocks = Append(@, r.val), !.status = "Error"]
         ELSE [f EXCEPT !.blocks = Append(@, r.val), !.i3 = r.rem,
                        !.status = IF r.rem = <<>> THEN "Ok" ELSE "Running"]
    ELSE [f EXCEPT !.status = r.kind]  \* Err(x) => return Err(x)

(* Header blocks of the frames the model decodes *)
FieldAB == <<64, 1, 97, 1, 98>>        \* insert ("a", "b"), cost 34
FieldAuthority == <<65, 0>>            \* insert (":authority", ""), cost 42
Field62 == <<190>>                     \* Indexed, index 62
FieldIndex0 == <<128>>                 \* Indexed, index 0
FieldBigIndex == <<255, 255, 255, 255, 127>>  \* Indexed, index above 2^28
FieldSize40 == <<63, 9>>               \* size update to 40
FieldSize0 == <<32>>                   \* size update to 0
FieldSizeOverflow == <<63>> \o TooLong \* size update, IntegerOverflow
FieldCut == <<64, 1>>                  \* a literal cut short
FieldError == <<255>> \o TooBig        \* Indexed, index overflows
FieldNoindex == <<0, 1, 97, 1, 98>>    \* without indexing ("a", "b")

HeaderBlocks ==
    { <<>>,
      FieldAB,
      FieldAB \o FieldAuthority,
      FieldSize40 \o FieldAB \o FieldAuthority,
      FieldAuthority \o FieldAB \o FieldSize0,
      FieldAB \o FieldCut,
      FieldAB \o FieldError,
      FieldAuthority \o FieldAB \o FieldError,
      Field62 \o FieldIndex0 \o FieldSizeOverflow \o FieldAB,
      FieldBigIndex \o Field62,
      FieldNoindex \o Field62,
      FieldAB \o Field62,
      FieldCut,
      FieldError }

ContinuationCalls == [input : HeaderBlocks, flags : {0}]

HeadersCalls ==
    { [input |-> FieldAB \o Field62, flags |-> 0],
      [input |-> <<3>> \o FieldAuthority, flags |-> HTTP2_FLAG_HEADER_PADDED],
      [input |-> <<0, 0, 0, 0, 16>> \o FieldAB \o FieldCut,
       flags |-> HTTP2_FLAG_HEADER_PRIORITY],
      [input |-> <<3, 0, 0, 0, 0, 16>> \o FieldSize40,
       flags |-> HTTP2_FLAG_HEADER_PADDED + HTTP2_FLAG_HEADER_PRIORITY],
      [input |-> <<>>, flags |-> HTTP2_FLAG_HEADER_PADDED],
      [input |-> <<0, 0>>, flags |-> HTTP2_FLAG_HEADER_PRIORITY],
      \* three and two bytes of padding after the field
      [input |-> <<3>> \o FieldAB \o <<0, 0, 0>>, flags |-> HTTP2_FLAG_HEADER_PADDED],
      [input |-> <<2, 128, 0, 0, 7, 255>> \o FieldAuthority \o <<0, 0>>,
       flags |-> HTTP2_FLAG_HEADER_PADDED + HTTP2_FLAG_HEADER_PRIORITY + 5] }

PushPromiseCalls ==
    { [input |-> <<0, 0, 0, 2>> \o FieldAB \o FieldAuthority, flags |-> 0],
      [input |-> <<1, 0, 0, 0, 2>> \o Field62, flags |-> HTTP2_FLAG_HEADER_PADDED],
      [input |-> <<0, 0, 0, 2>>, flags |-> 0],
      [input |-> <<0, 0>>, flags |-> 0] }

(* A call begins: the fixed part is decoded, the loop is entered *)
Begin(f) ==
    /\ frame.status # "Running"
    /\ current_size <= MaxCurrentSize
    /\ frame' = f
    /\ last' = NoCall
    /\ UNCHANGED <<table, current_size, max_size, overflow, notstored,
                   inserted, varint, call>>

ParseFrameHeaders ==
    \E c \in HeadersCalls :
        Begin(Entered("headers", c.input, c.flags,
                      HeadersPrefix(c.input, c.flags), Dyn))

ParseFramePushPromise ==
    \E c \in PushPromiseCalls :
        Begin(Entered("push_promise", c.input, c.flags,
                      PushPromisePrefix(c.input, c.flags), Dyn))

ParseFrameContinuation ==
    \E c \in ContinuationCalls :
        Begin(Entered("continuation", c.input, c.flags,
                      Ok(c.input, Fixed(<<>>, <<>>)), Dyn))

(* One iteration of the loop of the call under way *)
HeaderBlockLoop ==
    /\ frame.status = "Running"
    /\ \E r \in {http2_parse_headers_block(frame.i3, Dyn)} :
           /\ Returned(frame.i3, r)
           /\ frame' = LoopStep(frame, r)
    /\ UNCHANGED <<inserted, varint, call>>

(* The sizeupdate of the last SizeUpdate field of blocks, or none *)
LastSizeUpdate(blocks) ==
    LET at == {i \in 1..Len(blocks) : blocks[i].error = SizeUpdate}
    IN  IF at = {} THEN {}
        ELSE {blocks[CHOOSE i \in at : \A j \in at : j <= i].sizeupdate}

(* The owner applies the last size update of a decoded frame to max_size *)
OwnerApplyFrameSizeUpdate ==
    /\ frame.status = "Ok"
    /\ \E s \in LastSizeUpdate(frame.blocks) : max_size' = s
    /\ frame' = NoFrame
    /\ last' = NoCall
    /\ UNCHANGED <<table, current_size, overflow, notstored, inserted, varint, call>>

NextFrame ==
    \/ ParseFrameHeaders
    \/ ParseFramePushPromise
    \/ ParseFrameContinuation
    \/ HeaderBlockLoop
    \/ OwnerApplyFrameSizeUpdate
    \/ OwnerSetOverflow

SpecFrame == Init /\ [][NextFrame]_vars

(* The loop by itself, for any field decoder: whatever the bytes and the    *)
(* table, http2_parse_headers_block returns Ok((rem, b)) with rem a suffix  *)
(* of its input (all of it included), or an Err.  The loop is not           *)
(* suspended: a call under way takes its next iteration.                    *)
FieldResults(i3) ==
    { [kind |-> "Ok", rem |-> Drop(i3, k), val |-> NoHead] : k \in 0..Len(i3) }
        \cup { [kind |-> "Error", rem |-> <<>>, val |-> NoHead],
               [kind |-> "Incomplete", rem |-> <<>>, val |-> NoHead] }

HeaderBlockLoopAny ==
    /\ frame.status = "Running"
    /\ \E r \in FieldResults(frame.i3) : frame' = LoopStep(frame, r)
    /\ UNCHANGED <<table, current_size, max_size, overflow, last, notstored,
                   inserted, varint, call>>

NextLoop ==
    \/ ParseFrameHeaders
    \/ ParseFramePushPromise
    \/ ParseFrameContinuation
    \/ HeaderBlockLoopAny

SpecLoopLive == Init /\ [][NextLoop]_vars /\ WF_vars(HeaderBlockLoopAny)

----------------------------------------------------------------------------
(* http2_parse_var_uint on its own: the prefix widths the field decoders    *)
(* use (4 to 7 bits), a prefix value below or at the maximum, and the bytes *)
(* that follow the prefix.                                                  *)
PrefixMaxes == {15, 31, 63, 127}

VarIntInputs ==
    { <<>>,                               \* nothing after the prefix
      <<5>>, <<0, 7>>, <<127>>,             \* a terminating byte at once
      <<128, 1>>, <<255, 127, 9, 9>>,       \* one continuation byte
      <<154, 10>>,                          \* RFC 7541 C.1.2 (1337 = 31 + 1306)
      <<255, 255, 255, 3>>,                 \* three continuation bytes
      <<129>>, Repeat(128, 11),             \* no terminating byte
      Repeat(255, 8) \o <<127>>,            \* 8 continuation bytes, all ones
      Repeat(128, 9) \o <<0, 3>>,           \* 9 continuation bytes, all zero
      Repeat(255, 9) \o <<0>>,              \* 9 continuation bytes, final 0
      Repeat(255, 9) \o <<1>>,              \* final 1: the sum passes 2^64 - 1
      Repeat(255, 9) \o <<2>>,              \* final above 1
      <<128>> \o Repeat(255, 8) \o <<1>>,   \* 2^64 - 128 + max
      <<192>> \o Repeat(255, 8) \o <<1>>,   \* 2^64 - 64 + max
      <<224>> \o Repeat(255, 8) \o <<1>>,   \* 2^64 - 32 + max
      <<240>> \o Repeat(255, 8) \o <<1>>,   \* 2^64 - 16 + max
      Repeat(128, 10) \o <<0, 1>>,          \* 10 continuation bytes, sum 0
      Repeat(129, 10) \o <<1>> }            \* 10 continuation bytes

InitVarInt ==
    /\ table = <<>>
    /\ current_size = 0
    /\ max_size = 0
    /\ overflow = 0
    /\ last = NoCall
    /\ notstored = 0
    /\ inserted = <<>>
    /\ frame = NoFrame
    /\ call = NoStateless
    /\ \E max \in PrefixMaxes, input \in VarIntInputs :
           \E value \in {0, max - 1, max} :
               varint = [input |-> input, value |-> value, max |-> max,
                         res |-> [kind |-> "None"]]

ParseVarUint ==
    /\ varint.res.kind = "None"
    /\ varint' = [varint EXCEPT
                     !.res = http2_parse_var_uint_u64(varint.input, varint.value,
                                                      varint.max)]
    /\ UNCHANGED <<table, current_size, max_size, overflow, last, notstored,
                   inserted, frame, call>>

NextVarInt == ParseVarUint

SpecVarInt == InitVarInt /\ [][NextVarInt]_vars

----------------------------------------------------------------------------
(* http2_parse_headers_block on its own: one call on every first byte, with *)
(* nothing or a short literal after it, against tables of zero to two       *)
(* entries in each overflow state.                                          *)
EntryAB == HTTP2FrameHeaderBlock(<<97>>, <<98>>, Success, 0)
EntryAuthority == HTTP2FrameHeaderBlock(StaticTable[1][1], <<>>, Success, 0)

FieldTables == { <<>>, <<EntryAB>>, <<EntryAB, EntryAuthority>> }

FieldSuffixes == { <<>>, <<1, 97, 1, 98>> }

FieldInputs == { <<b>> \o s : b \in 0..255, s \in FieldSuffixes }

InitField ==
    /\ table \in FieldTables
    /\ current_size = (IF Len(table) > 0 THEN EntryCost(table[1]) ELSE 0)
                        + (IF Len(table) > 1 THEN EntryCost(table[2]) ELSE 0)
    /\ max_size \in NegotiatedSizes
    /\ current_size <= max_size
    /\ overflow \in {0, 1, 2}
    /\ \E input \in FieldInputs : last = [NoCall EXCEPT !.input = input]
    /\ notstored = 0
    /\ inserted = <<>>
    /\ varint = NoVarInt
    /\ frame = NoFrame
    /\ call = NoStateless

ParseField ==
    /\ last.res.kind = "None"
    /\ last.input # <<>>
    /\ Call(last.input)
    /\ UNCHANGED <<inserted, varint, call, frame>>

NextField == ParseField

SpecField == InitField /\ [][NextField]_vars

----------------------------------------------------------------------------
(* The decoders that take no table *)

HTTP2FrameHeader(length, ftype, flags, reserved, stream_id) ==
    [length |-> length, ftype |-> ftype, flags |-> flags, reserved |-> reserved,
     stream_id |-> stream_id]

(* Mutant: the length is read little-endian *)
http2_parse_frame_header_le(input) ==
    IF Len(input) < 9 THEN Incomplete
    ELSE Ok(Drop(input, 9),
            HTTP2FrameHeader(BeUint(<<input[3], input[2], input[1]>>),
                             input[4], input[5], input[6] \div 128,
                             BeUint(<<input[6] % 128, input[7], input[8], input[9]>>)))

(* do_parse!: 24 bits, two bytes, 1 + 31 bits; each step is a streaming     *)
(* parser, Incomplete when its bytes are not there                          *)
http2_parse_frame_header(input) ==
    IF Len(input) < 9 THEN Incomplete
    ELSE Ok(Drop(input, 9),
            HTTP2FrameHeader(BeUint(SubSeq(input, 1, 3)),
                             input[4], input[5], input[6] \div 128,
                             BeUint(<<input[6] % 128, input[7], input[8], input[9]>>)))

(* num::FromPrimitive::from_u16 is Some for the discriminants of            *)
(* HTTP2SettingsId                                                          *)
HTTP2SettingsId == 1..6

(* value is a u32: kept as its two 16-bit halves *)
HTTP2FrameSettings(id, hi, lo) == [id |-> id, value |-> [hi |-> hi, lo |-> lo]]

http2_parse_frame_setting(input) ==
    IF Len(input) < 2 THEN Incomplete
    ELSE IF BeUint(SubSeq(input, 1, 2)) \notin HTTP2SettingsId THEN Error(input)
    ELSE IF Len(input) < 6 THEN Incomplete
    ELSE Ok(Drop(input, 6),
            HTTP2FrameSettings(BeUint(SubSeq(input, 1, 2)),
                               BeUint(SubSeq(input, 3, 4)),
                               BeUint(SubSeq(input, 5, 6))))

(* complete!: Incomplete becomes an Error *)
Complete(input, r) == IF r.kind = "Incomplete" THEN Error(input) ELSE r

(* many0!: collect until the parser fails with an Error, which ends the     *)
(* list without failing; a parser that consumed nothing is an Error         *)
RECURSIVE Many0Settings(_, _)

(* Mutant: an unrecognized id is skipped and the list goes on *)
Many0Step_skip(i, r, acc) ==
    IF r.kind = "Error"
    THEN IF Len(i) >= 6 THEN Many0Settings(Drop(i, 6), acc) ELSE Ok(i, acc)
    ELSE IF r.rem = i THEN Error(i)
    ELSE Many0Settings(r.rem, Append(acc, r.val))

Many0Step(i, r, acc) ==
    IF r.kind = "Error" THEN Ok(i, acc)
    ELSE IF r.rem = i THEN Error(i)
    ELSE Many0Settings(r.rem, Append(acc, r.val))

Many0Settings(i, acc) == Many0Step(i, Complete(i, http2_parse_frame_setting(i)), acc)

http2_parse_frame_settings(input) == Many0Settings(input, <<>>)

(* One call of each, on inputs drawn at the start *)
StringPayloads == { SubSeq(<<97, 200, 98, 1>>, 1, n) : n \in 0..4 }

StringInputs ==
    { <<h * 128 + l>> \o p : h \in {0, 1}, l \in 0..3, p \in StringPayloads }
        \cup { <<>>,
               <<1, 255>>, <<131, 255, 255, 234>>,  \* the two of the unit test
               <<127>>, <<127, 129>>,               \* the length is cut short
               <<127, 0>> \o Repeat(97, 127),       \* L = 127
               <<127, 0>> \o Repeat(97, 126),       \* one byte missing
               <<255, 1>> \o Repeat(97, 128) \o <<5>>,
               <<127, 128, 1>> \o Repeat(98, 255),  \* L = 255
               <<127, 128, 1>> \o Repeat(98, 254),
               <<127>> \o TooLong \o <<97>>,         \* the length overflows
               <<255>> \o TooBig }

FrameHeaderInputs ==
    { <<a, b, c, t, f, s, m, m, e>> \o rest :
          a \in {0, 1, 255}, b \in {0, 255}, c \in {0, 6, 255}, t \in {4, 9},
          f \in {0, 45}, s \in {0, 127, 128, 255}, m \in {0, 255},
          e \in {0, 1, 255}, rest \in {<<>>, <<0, 3>>} }
        \cup { SubSeq(<<0, 0, 6, 4, 0, 0, 0, 0, 0, 0, 3, 0, 0, 0, 100>>, 1, n) :
                   n \in 0..15 }

SettingsPairs ==
    { <<0, 1, 0, 0, 16, 0>>,          \* HEADER_TABLE_SIZE 4096
      <<0, 3, 0, 0, 0, 100>>,         \* MAX_CONCURRENT_STREAMS 100
      <<0, 6, 255, 255, 255, 255>>,   \* MAX_HEADER_LIST_SIZE 2^32 - 1
      <<0, 0, 0, 0, 0, 1>>,           \* id 0
      <<0, 7, 0, 0, 0, 1>>,           \* id 7
      <<1, 1, 0, 0, 0, 1>> }          \* id 257
SettingsTails == { <<>>, <<0>>, <<0, 1>>, <<0, 1, 0, 0, 0>>, <<0, 9>> }
SettingsInputs ==
    { p \o t : p \in {<<>>} \cup SettingsPairs
                     \cup { x \o y : x \in SettingsPairs, y \in SettingsPairs }
                     \cup { x \o y \o z : x \in SettingsPairs, y \in SettingsPairs,
                                           z \in SettingsPairs },
               t \in SettingsTails }

InitStateless ==
    /\ table = <<>>
    /\ current_size = 0
    /\ max_size = 0
    /\ overflow = 0
    /\ last = NoCall
    /\ notstored = 0
    /\ inserted = <<>>
    /\ varint = NoVarInt
    /\ frame = NoFrame
    /\ \/ \E input \in StringInputs :
              call = [decoder |-> "string", input |-> input, res |-> [kind |-> "None"]]
       \/ \E input \in FrameHeaderInputs :
              call = [decoder |-> "frame_header", input |-> input,
                      res |-> [kind |-> "None"]]
       \/ \E input \in SettingsInputs :
              call = [decoder |-> "settings", input |-> input,
                      res |-> [kind |-> "None"]]

StatelessReturned(r) ==
    /\ call.res.kind = "None"
    /\ call' = [call EXCEPT !.res = r]
    /\ UNCHANGED <<table, current_size, max_size, overflow, last, notstored,
                   inserted, varint, frame>>

ParseString ==
    /\ call.decoder = "string"
    /\ StatelessReturned(http2_parse_headers_block_string(call.input))

ParseFrameHeader ==
    /\ call.decoder = "frame_header"
    /\ StatelessReturned(http2_parse_frame_header(call.input))

ParseFrameSettings ==
    /\ call.decoder = "settings"
    /\ StatelessReturned(http2_parse_frame_settings(call.input))

NextStateless ==
    \/ ParseString
    \/ ParseFrameHeader
    \/ ParseFrameSettings

SpecStateless == InitStateless /\ [][NextStateless]_vars

----------------------------------------------------------------------------
(* Vocabulary of the properties.  The state right after a call is described *)
(* by last: Pre is the table the call was given, the variables are the      *)
(* table it left.                                                           *)
Pre == last.pre
Res == last.res
Called == Res.kind # "None"

IsIndexed(input) == input[1] >= 128
IsIncindex(input) == input[1] \in 64..127
IsSizeUpdate(input) == input[1] \in 32..63
IsNeverindex(input) == input[1] \in 16..31
IsNoindex(input) == input[1] \in 0..15

(* The sum of 32 + len(name) + len(value) over the entries of t *)
RECURSIVE TableCost(_)
TableCost(t) ==
    IF t = <<>> THEN 0
    ELSE 32 + Len(Head(t).name) + Len(Head(t).value) + TableCost(Tail(t))

(* The last call was a Literal with Incremental Indexing decoded with Success *)
IncindexSuccess ==
    Called /\ IsIncindex(last.input) /\ Res.kind = "Ok" /\ Res.val.error = Success

(* Its entry, and current_size with the entry's cost added *)
NewEntry == HTTP2FrameHeaderBlock(Res.val.name, Res.val.value, Success, 0)
SizeWithEntry == Pre.current_size + TableCost(<<NewEntry>>)

(* The table left is t without its k oldest entries, whose cost was taken   *)
(* from the size cs                                                        *)
EvictedFrom(t, cs, k) ==
    /\ table = Drop(t, k)
    /\ current_size = cs - TableCost(SubSeq(t, 1, k))

(* The entry was appended (and possibly evicted again) / was not appended:  *)
(* the two exclude each other, every cost being positive                   *)
Appended ==
    \E k \in 0..(Len(Pre.table) + 1) :
        EvictedFrom(Append(Pre.table, NewEntry), SizeWithEntry, k)
NotAppended ==
    \E k \in 0..Len(Pre.table) : EvictedFrom(Pre.table, SizeWithEntry, k)

(* C1 as stated: after a successful Literal-with-Incremental-Indexing       *)
(* decode, Clean always appends; Pending appends iff the new current_size   *)
(* is within HTTP2_MAX_TABLESIZE and in every other Pending case the state  *)
(* becomes Overflowed; Overflowed never appends.                            *)
C1_AsStated ==
    IncindexSuccess =>
        /\ Pre.overflow = 0 => Appended
        /\ Pre.overflow = 1 =>
              /\ Appended <=> SizeWithEntry <= HTTP2_MAX_TABLESIZE
              /\ ~Appended => overflow = 2
        /\ Pre.overflow = 2 => NotAppended

(* C1 amended: as above, but a Pending table whose new current_size exceeds *)
(* the ceiling becomes Overflowed only if the new current_size also exceeds *)
(* max_size; otherwise the entry is dropped and the state stays Pending.    *)
(* No other case changes the overflow state.                                *)
C1_StorageDecision ==
    IncindexSuccess =>
        /\ Pre.overflow = 0 => Appended /\ overflow = 0
        /\ Pre.overflow = 1 =>
              /\ SizeWithEntry <= HTTP2_MAX_TABLESIZE => Appended /\ overflow = 1
              /\ SizeWithEntry > HTTP2_MAX_TABLESIZE =>
                    /\ NotAppended
                    /\ overflow = IF SizeWithEntry > Pre.max_size THEN 2 ELSE 1
        /\ Pre.overflow = 2 => NotAppended /\ overflow = 2

(* A Pending table over the ceiling but within max_size dropped the entry   *)
(* and stayed Pending                                                       *)
C1_Witness ==
    /\ IncindexSuccess
    /\ Pre.overflow = 1
    /\ SizeWithEntry > HTTP2_MAX_TABLESIZE
    /\ SizeWithEntry <= Pre.max_size
    /\ NotAppended
    /\ overflow = 1

(* C2 as stated: current_size is the sum of the costs of the stored entries *)
C2_AsStated == current_size = TableCost(table)

(* C2 amended: current_size is the sum of the costs of the stored entries   *)
(* plus the costs of the entries that were decoded with Success but not     *)
(* stored (Pending over the ceiling, Overflowed); the two are equal as long *)
(* as no entry was dropped.                                                 *)
C2_SizeAccounting == current_size = TableCost(table) + notstored

(* Entries are stored, one was dropped, and an eviction has taken place *)
C2_Witness ==
    /\ IncindexSuccess
    /\ notstored > 0
    /\ table # <<>>
    /\ Len(table) < Len(Pre.table)

(* C3: after the storage decision of a successful Literal-with-Incremental- *)
(* Indexing decode, the table left is the previous table (plus the new      *)
(* entry if stored) without its k oldest entries, in unchanged order, each  *)
(* removal having subtracted that entry's cost and having happened while    *)
(* current_size > max_size; afterwards current_size <= max_size or the      *)
(* table is empty.                                                          *)
C3_EvictOldestFirst ==
    IncindexSuccess =>
        \E t \in {Pre.table, Append(Pre.table, NewEntry)} :
            \E k \in 0..Len(t) :
                /\ EvictedFrom(t, SizeWithEntry, k)
                /\ \A j \in 0..(k - 1) :
                       SizeWithEntry - TableCost(SubSeq(t, 1, j)) > max_size
                /\ current_size <= max_size \/ table = <<>>

(* Two or more entries were evicted by one insertion and one survives *)
C3_Witness ==
    /\ IncindexSuccess
    /\ Appended
    /\ table # <<>>
    /\ Len(table) < Len(Pre.table)

(* The longest suffix of seq whose total cost is within m *)
KeepLen(seq, m) ==
    CHOOSE k \in 0..Len(seq) :
        /\ TableCost(SubSeq(seq, Len(seq) - k + 1, Len(seq))) <= m
        /\ \A j \in (k + 1)..Len(seq) :
               TableCost(SubSeq(seq, Len(seq) - j + 1, Len(seq))) > m
LongestSuffixWithin(seq, m) ==
    SubSeq(seq, Len(seq) - KeepLen(seq, m) + 1, Len(seq))

(* C4: from a new table (empty, Clean) under a fixed max_size and without   *)
(* size updates, after any sequence of successful Literal-with-Incremental- *)
(* Indexing decodes current_size <= max_size, current_size is the cost of   *)
(* the table, and the table is exactly the longest suffix of the inserted   *)
(* entries whose total cost is <= max_size.                                 *)
C4_LongestSuffix ==
    /\ current_size <= max_size
    /\ current_size = TableCost(table)
    /\ table = LongestSuffixWithin(inserted, max_size)

(* Some, but not all, of at least three inserted entries are left *)
C4_Witness ==
    /\ Len(inserted) >= 3
    /\ table # <<>>
    /\ Len(table) < Len(inserted)
    /\ IncindexSuccess

(* The result of an Indexed Header Field with index 62 decoded next *)
Lookup62 == http2_parse_headers_block(<<190>>, Dyn)

(* What C5 concludes: the newest entry is the decoded (name, value), and    *)
(* index 62 decoded next returns it with Success and leaves the table alone *)
C5_RoundTrip ==
    /\ Appended
    /\ table # <<>>
    /\ table[Len(table)].name = Res.val.name
    /\ table[Len(table)].value = Res.val.value
    /\ Lookup62.kind = "Ok"
    /\ Lookup62.rem = <<>>
    /\ Lookup62.val = HTTP2FrameHeaderBlock(Res.val.name, Res.val.value, Success, 0)
    /\ Lookup62.dyn = Dyn

(* C5 as stated: after a successful Literal-with-Incremental-Indexing       *)
(* decode on a Clean table whose entry cost is <= max_size, the newest      *)
(* entry is the decoded (name, value) and index 62 decoded next returns it  *)
(* without changing the table.                                              *)
C5_AsStated ==
    (/\ IncindexSuccess
     /\ Pre.overflow = 0
     /\ TableCost(<<NewEntry>>) <= Pre.max_size) => C5_RoundTrip

(* C5 amended: the same for a Clean table whose current_size is the sum of  *)
(* the costs of its entries (no entry was dropped before).                  *)
C5_InsertThenLookup ==
    (/\ IncindexSuccess
     /\ Pre.overflow = 0
     /\ Pre.current_size = TableCost(Pre.table)
     /\ TableCost(<<NewEntry>>) <= Pre.max_size) => C5_RoundTrip

(* An insertion into a table that holds entries already, one evicted by it *)
C5_Witness ==
    /\ IncindexSuccess
    /\ Pre.overflow = 0
    /\ Pre.current_size = TableCost(Pre.table)
    /\ TableCost(<<NewEntry>>) <= Pre.max_size
    /\ Len(Pre.table) >= 2
    /\ Len(table) = Len(Pre.table)
    /\ table[Len(table)] # table[Len(table) - 1]

(* The index of a one-byte Indexed Header Field (prefix below 127) *)
IndexedIndex(input) == input[1] - 128

(* C6: an Indexed Header Field with index n > 61 on a table of length len   *)
(* returns Ok and leaves the table unchanged; if n - 61 <= len the field is *)
(* a copy of the entry at position len - (n - 61), counted from 0 at the    *)
(* oldest, with Success; otherwise it is empty with NotIndexed.             *)
C6_DynamicLookup ==
    (/\ Called
     /\ IsIndexed(last.input)
     /\ Len(last.input) = 1
     /\ IndexedIndex(last.input) \in 62..126) =>
        /\ Res.kind = "Ok"
        /\ Dyn = Pre
        /\ IF IndexedIndex(last.input) - 61 <= Len(Pre.table)
           THEN Res.val =
                  HTTP2FrameHeaderBlock(
                      Pre.table[Len(Pre.table) - (IndexedIndex(last.input) - 61) + 1].name,
                      Pre.table[Len(Pre.table) - (IndexedIndex(last.input) - 61) + 1].value,
                      Success, 0)
           ELSE Res.val = HTTP2FrameHeaderBlock(<<>>, <<>>, NotIndexed, 0)

(* Index 64 returned the oldest of three entries, which is not the newest *)
C6_Witness ==
    /\ Called
    /\ last.input = <<192>>
    /\ Len(table) = 3
    /\ Res.val.error = Success
    /\ Res.val.name = table[1].name
    /\ table[1] # table[3]

(* The name index of a literal field whose VarInt has at most one           *)
(* continuation byte                                                        *)
LiteralPrefixMax(input) == IF IsIncindex(input) THEN 63 ELSE 15
LiteralNameIndex(input) ==
    IF input[1] % (LiteralPrefixMax(input) + 1) < LiteralPrefixMax(input)
    THEN input[1] % (LiteralPrefixMax(input) + 1)
    ELSE LiteralPrefixMax(input) + input[2]

IsLiteral(input) == IsIncindex(input) \/ IsNoindex(input) \/ IsNeverindex(input)

(* The non-zero name index of the last call resolved to no static and no    *)
(* dynamic entry of the table it was given                                  *)
UnresolvedName ==
    /\ Called
    /\ IsLiteral(last.input)
    /\ Len(last.input) >= 2
    /\ LiteralNameIndex(last.input) > HTTP2_STATIC_HEADERS_NUMBER + Len(Pre.table)

(* C7: for each of the three literal variants, when the name index is       *)
(* non-zero and resolves to neither a static nor a dynamic entry, the       *)
(* returned field carries status NotIndexed.                                *)
C7_AsStated == (UnresolvedName /\ Res.kind = "Ok") => Res.val.error = NotIndexed

(* C8: a Literal-with-Incremental-Indexing field whose non-zero name index  *)
(* is unresolved never adds an entry and never changes current_size.        *)
C8_AsStated ==
    (UnresolvedName /\ IsIncindex(last.input)) =>
        /\ table = Pre.table
        /\ current_size = Pre.current_size

(* C9: decoding an Indexed Header Field, a Literal without Indexing or a    *)
(* Literal Never Indexed field leaves the Dynamic Table unchanged (entries, *)
(* order, current_size, max_size, overflow), whatever the outcome.          *)
C9_ReadOnlyVariants ==
    (/\ Called
     /\ IsIndexed(last.input) \/ IsNoindex(last.input) \/ IsNeverindex(last.input)) =>
        Dyn = Pre

(* A Literal without Indexing took its name from a dynamic entry *)
C9_Witness ==
    /\ Called
    /\ IsNoindex(last.input)
    /\ Res.kind = "Ok"
    /\ LiteralNameIndex(last.input) = 62
    /\ table # <<>>
    /\ Res.val.name = table[Len(table)].name
    /\ Res.val.name # <<>>

(* The size a complete Dynamic Table Size Update encodes in at most one     *)
(* continuation byte                                                        *)
SizeUpdateComplete(input) ==
    input[1] % 32 < 31 \/ (Len(input) >= 2 /\ input[2] < 128)
SizeUpdateValue(input) ==
    IF input[1] % 32 < 31 THEN input[1] % 32 ELSE 31 + input[2]

(* C10: a Dynamic Table Size Update that decodes a size S returns a field   *)
(* with status SizeUpdate and sizeupdate S; if S < max_size the oldest      *)
(* entries are evicted, each for its cost, so that current_size <= S or the *)
(* table is empty; if S >= max_size entries and current_size are unchanged. *)
C10_SizeUpdate ==
    (/\ Called
     /\ IsSizeUpdate(last.input)
     /\ SizeUpdateComplete(last.input)) =>
        /\ Res.kind = "Ok"
        /\ Res.val = HTTP2FrameHeaderBlock(<<>>, <<>>, SizeUpdate,
                                           SizeUpdateValue(last.input))
        /\ SizeUpdateValue(last.input) < Pre.max_size =>
              /\ \E k \in 0..Len(Pre.table) :
                     EvictedFrom(Pre.table, Pre.current_size, k)
              /\ current_size <= SizeUpdateValue(last.input) \/ table = <<>>
        /\ SizeUpdateValue(last.input) >= Pre.max_size =>
              /\ table = Pre.table
              /\ current_size = Pre.current_size

(* A size update below max_size evicted some entries and left others *)
C10_Witness ==
    /\ Called
    /\ IsSizeUpdate(last.input)
    /\ SizeUpdateComplete(last.input)
    /\ SizeUpdateValue(last.input) < Pre.max_size
    /\ table # <<>>
    /\ Len(table) < Len(Pre.table)

----------------------------------------------------------------------------
(* Vocabulary of the VarInt properties.  A u64 is compared in three limbs   *)
(* of 28 bits (four base-128 digits each), computed from the input bytes    *)
(* with integer arithmetic.                                                 *)
VarIntReturned == varint.res.kind # "None"

(* The number of leading bytes with the high bit set *)
ContinuationCount(input) ==
    CHOOSE n \in 0..Len(input) :
        /\ \A i \in 1..n : input[i] >= 128
        /\ n = Len(input) \/ input[n + 1] < 128

Terminated(input) == ContinuationCount(input) < Len(input)

(* (byte_i & 0x7f) of the continuation bytes and the terminating byte *)
Term(input, i) ==
    IF i <= ContinuationCount(input) + 1 /\ i <= Len(input)
    THEN input[i] % 128 ELSE 0

LimbOf(d(_), j) ==
    d(4 * j + 1) + 128 * d(4 * j + 2) + 128 * 128 * d(4 * j + 3)
        + 128 * 128 * 128 * d(4 * j + 4)

TermLimb(input, j) == LET d(i) == Term(input, i) IN LimbOf(d, j)

(* max + sum of the terms, limb by limb; the top limb keeps its carry *)
SumLimb0(input, max) == (TermLimb(input, 0) + max) % (2 ^ 28)
SumLimb1(input, max) ==
    (TermLimb(input, 1) + (TermLimb(input, 0) + max) \div (2 ^ 28)) % (2 ^ 28)
SumLimb2(input, max) ==
    TermLimb(input, 2)
        + (TermLimb(input, 1) + (TermLimb(input, 0) + max) \div (2 ^ 28)) \div (2 ^ 28)

(* The exact sum is above 2^64 - 1 = 2^56 * 256 - 1 *)
SumExceedsU64(input, max) ==
    \/ SumLimb2(input, max) >= 256
    \/ \E i \in 13..Len(input) : Term(input, i) # 0

VarIntOverflow(input, max) ==
    ContinuationCount(input) > 9 \/ SumExceedsU64(input, max)

(* The returned u64 *)
ResultLimb(j) ==
    LET d(i) == IF i <= Len(varint.res.digits) THEN varint.res.digits[i] ELSE 0
    IN  LimbOf(d, j)
ResultIs(l0, l1, l2) ==
    /\ ResultLimb(0) = l0 /\ ResultLimb(1) = l1 /\ ResultLimb(2) = l2
    /\ \A i \in 13..Len(varint.res.digits) : varint.res.digits[i] = 0
ResultZero == ResultIs(0, 0, 0)

(* The digits ds are a value below 2^64 *)
FitsU64(ds) ==
    \A p \in 1..Len(ds) : (p > 10 => ds[p] = 0) /\ (p = 10 => ds[p] < 2)

ConsumedThroughTerminator ==
    /\ varint.res.kind = "Ok"
    /\ varint.res.rem =
           SubSeq(varint.input, ContinuationCount(varint.input) + 2,
                  Len(varint.input))

(* C12: VarInt decoding for a k-bit prefix, m = 2^k - 1: if the prefix      *)
(* value v < m the result is v and no byte is consumed; otherwise the       *)
(* decoder consumes every byte with the high bit set plus one terminating   *)
(* byte and, when no overflow occurs, returns m + sum of (byte_i & 0x7f)    *)
(* << 7i, the terminating byte contributing the last term.                  *)
C12_VarIntDecoding ==
    VarIntReturned =>
        /\ varint.value < varint.max =>
              /\ varint.res.kind = "Ok"
              /\ varint.res.rem = varint.input
              /\ ResultIs(varint.value, 0, 0)
        /\ (varint.value = varint.max /\ Terminated(varint.input)) =>
              /\ ConsumedThroughTerminator
              /\ ~VarIntOverflow(varint.input, varint.max) =>
                     ResultIs(SumLimb0(varint.input, varint.max),
                              SumLimb1(varint.input, varint.max),
                              SumLimb2(varint.input, varint.max))

(* Nine continuation bytes and a terminating 1 decoded to 2^64 - 1 *)
C12_Witness ==
    /\ VarIntReturned
    /\ varint.value = varint.max
    /\ ContinuationCount(varint.input) = 9
    /\ varint.input[10] = 1
    /\ ResultIs(2 ^ 28 - 1, 2 ^ 28 - 1, 255)

(* C13: when v = m the decoder returns 0 if and only if more than 9         *)
(* continuation bytes were consumed or the exact sum exceeds 2^64 - 1, and  *)
(* the continuation and terminating bytes are consumed then too; every      *)
(* other result with v = m is >= m > 0; varval after the loop and the       *)
(* shifted final term each fit 64 bits whenever the decoder computes them.  *)
C13_OverflowSentinel ==
    (/\ VarIntReturned
     /\ varint.value = varint.max
     /\ Terminated(varint.input)) =>
        /\ ConsumedThroughTerminator
        /\ ResultZero <=> VarIntOverflow(varint.input, varint.max)
        /\ ~ResultZero =>
              /\ varint.max > 0
              /\ \/ ResultLimb(0) >= varint.max
                 \/ ResultLimb(1) > 0
                 \/ ResultLimb(2) > 0
        /\ ~(\/ ContinuationCount(varint.input) > 9
             \/ /\ ContinuationCount(varint.input) = 9
                /\ varint.input[10] > 1) =>
              /\ FitsU64(ContinuationSum(varint.input,
                                         ContinuationCount(varint.input),
                                         varint.max))
              /\ FitsU64(FinalTerm(varint.input, ContinuationCount(varint.input)))

(* Nine continuation bytes and a terminating 1 whose sum is 2^64 + m - 1:   *)
(* the sentinel comes from the comparison with u64::MAX - varval            *)
C13_Witness ==
    /\ VarIntReturned
    /\ varint.value = varint.max
    /\ varint.input = Repeat(255, 9) \o <<1>>
    /\ ResultZero
    /\ varint.res.rem = <<>>

----------------------------------------------------------------------------
(* Vocabulary of the frame properties.  Under SpecFrame last is the field   *)
(* decode of the latest loop iteration, frame the call it belongs to.       *)
FrameCalled == frame.status # "None"

(* C11: the Dynamic Table Size Update decoder never assigns max_size:       *)
(* across any header-field decode and any header-bearing frame decode,      *)
(* size updates included, max_size is what it was before the call, so an    *)
(* insertion later in the same block evicts against the old max_size.       *)
C11_MaxSizeKept ==
    /\ Called => max_size = Pre.max_size
    /\ FrameCalled => max_size = frame.pre.max_size
    /\ (FrameCalled /\ IncindexSuccess) =>
          \E t \in {Pre.table, Append(Pre.table, NewEntry)} :
              \E k \in 0..Len(t) :
                  /\ EvictedFrom(t, SizeWithEntry, k)
                  /\ \A j \in 0..(k - 1) :
                         SizeWithEntry - TableCost(SubSeq(t, 1, j))
                             > frame.pre.max_size
                  /\ current_size <= frame.pre.max_size \/ table = <<>>

(* A block whose size update is below what its later insertions leave in    *)
(* the table                                                                *)
C11_Witness ==
    /\ frame.status = "Ok"
    /\ IncindexSuccess
    /\ Appended
    /\ Len(table) >= 2
    /\ \E i \in 1..Len(frame.blocks) :
           /\ frame.blocks[i].error = SizeUpdate
           /\ frame.blocks[i].sizeupdate < frame.pre.max_size
           /\ frame.blocks[i].sizeupdate < current_size

----------------------------------------------------------------------------
(* The prefix of a field's first byte and the VarInt that follows it *)
FieldPrefixMax(input) ==
    IF IsIndexed(input) THEN 127
    ELSE IF IsIncindex(input) THEN 63
    ELSE IF IsSizeUpdate(input) THEN 31 ELSE 15
FieldPrefix(input) == input[1] % (FieldPrefixMax(input) + 1)

(* The VarInt of the first byte (index or size) overflows *)
PrefixOverflows(input) ==
    /\ FieldPrefix(input) = FieldPrefixMax(input)
    /\ Terminated(Tail(input))
    /\ VarIntOverflow(Tail(input), FieldPrefixMax(input))

(* The length of the string that follows the first byte of a literal (its   *)
(* name for index 0, its value otherwise) overflows                         *)
StringLengthOverflows(input) ==
    /\ IsLiteral(input)
    /\ FieldPrefix(input) < FieldPrefixMax(input)
    /\ Len(input) >= 2
    /\ input[2] % 128 = 127
    /\ Terminated(Drop(input, 2))
    /\ VarIntOverflow(Drop(input, 2), 127)

(* C14: a VarInt overflow is a fatal Error for the field in the Indexed     *)
(* decoder, the three Literal decoders and the string-length decoder; in    *)
(* the Dynamic Table Size Update decoder it yields an Ok pseudo-field with  *)
(* status IntegerOverflow and sizeupdate 0; in every one of these cases the *)
(* Dynamic Table is not mutated by that field.                              *)
C14_OverflowHandling ==
    Called =>
        /\ (~IsSizeUpdate(last.input) /\ PrefixOverflows(last.input)) =>
              Res.kind = "Error" /\ Dyn = Pre
        /\ StringLengthOverflows(last.input) =>
              Res.kind = "Error" /\ Dyn = Pre
        /\ (IsSizeUpdate(last.input) /\ PrefixOverflows(last.input)) =>
              /\ Res.kind = "Ok"
              /\ Res.val = HTTP2FrameHeaderBlock(<<>>, <<>>, IntegerOverflow, 0)
              /\ Dyn = Pre

(* An overflowing size update on a table with entries, below its max_size   *)
C14_Witness ==
    /\ Called
    /\ last.input = <<63>> \o TooBig \o <<130>>
    /\ Res.val.error = IntegerOverflow
    /\ Res.rem = <<130>>
    /\ Len(table) >= 2
    /\ max_size > 0

----------------------------------------------------------------------------
(* One step of a call under way: the loop iteration either ends the call    *)
(* or goes on with strictly fewer bytes; an iteration that pushed a block   *)
(* and left i3 as long as it was ends the call with an Error                *)
LoopProgress ==
    frame.status = "Running" =>
        /\ frame.i3 # <<>>
        /\ frame'.status \in {"Running", "Ok", "Error", "Incomplete"}
        /\ frame'.status = "Running" => Len(frame'.i3) < Len(frame.i3)
        /\ frame'.status = "Ok" => frame'.i3 = <<>>
        /\ (/\ Len(frame'.blocks) > Len(frame.blocks)
            /\ Len(frame'.i3) = Len(frame.i3)) => frame'.status = "Error"

(* C15: the header-block loop of Headers, PushPromise and Continuation      *)
(* decoding terminates on every finite input: each iteration returns an     *)
(* error or Incomplete, or strictly reduces the number of remaining bytes   *)
(* (an iteration that leaves it unchanged aborts the frame with an Error),  *)
(* and every call under way comes to its end.  Checked for every result a   *)
(* field decoder may return.                                                *)
C15_LoopTerminates ==
    /\ [][LoopProgress]_vars
    /\ (frame.status = "Running") ~> (frame.status # "Running")

(* A call returned after four iterations of its loop *)
C15_Witness ==
    /\ frame.status = "Ok"
    /\ Len(frame.blocks) = 4
    /\ frame.i3 = <<>>
    /\ Len(frame.input) > 4

----------------------------------------------------------------------------
(* The header block of a frame: what follows padlength, priority and        *)
(* stream_id                                                                *)
Padded(flags) == (flags \div 8) % 2 = 1
WithPriority(flags) == (flags \div 32) % 2 = 1
PrefixLength(f) ==
    IF f.decoder = "headers"
    THEN (IF Padded(f.flags) THEN 1 ELSE 0) + (IF WithPriority(f.flags) THEN 5 ELSE 0)
    ELSE IF f.decoder = "push_promise"
    THEN (IF Padded(f.flags) THEN 1 ELSE 0) + 4
    ELSE 0
HeaderBlock(f) == SubSeq(f.input, PrefixLength(f) + 1, Len(f.input))

(* The fields of bytes decoded one after the other from the table dyn, each *)
(* against the table the one before it left: the fields, the table left and *)
(* the bytes from the first field that did not decode                       *)
RECURSIVE DecodeAll(_, _, _)
DecodeNext(bytes, r, blocks) ==
    IF r.kind # "Ok" \/ Len(r.rem) >= Len(bytes)
    THEN [blocks |-> blocks, dyn |-> r.dyn, left |-> bytes]
    ELSE DecodeAll(r.rem, r.dyn, Append(blocks, r.val))
DecodeAll(bytes, dyn, blocks) ==
    IF bytes = <<>> THEN [blocks |-> blocks, dyn |-> dyn, left |-> <<>>]
    ELSE DecodeNext(bytes, http2_parse_headers_block(bytes, dyn), blocks)

(* C16: a successful header-bearing frame decode returns an empty remainder *)
(* and a block list with exactly one field per encoded field, in wire       *)
(* order, each decoded against the Dynamic Table left by the fields before. *)
C16_FrameBlocks ==
    frame.status = "Ok" =>
        /\ frame.i3 = <<>>
        /\ DecodeAll(HeaderBlock(frame), frame.pre, <<>>).left = <<>>
        /\ frame.blocks = DecodeAll(HeaderBlock(frame), frame.pre, <<>>).blocks
        /\ Dyn = DecodeAll(HeaderBlock(frame), frame.pre, <<>>).dyn

(* An insertion, then index 62 in the same block returned the inserted      *)
(* entry, which the table did not hold before the call                      *)
C16_Witness ==
    /\ frame.status = "Ok"
    /\ frame.pre.table = <<>>
    /\ Len(frame.blocks) = 2
    /\ HeaderBlock(frame) = FieldAB \o Field62
    /\ frame.blocks[1] = HTTP2FrameHeaderBlock(<<97>>, <<98>>, Success, 0)
    /\ frame.blocks[2] = frame.blocks[1]

(* The bytes of the header block the loop has consumed *)
Consumed(f) == SubSeq(HeaderBlock(f), 1, Len(HeaderBlock(f)) - Len(f.i3))

(* C17: when a header-bearing frame decode aborts with an Error on its k-th *)
(* field, the Dynamic Table mutations of fields 1..k-1 are kept: the table  *)
(* after the failed call is the one obtained by decoding those k-1 fields   *)
(* alone.                                                                   *)
C17_NoRollback ==
    frame.status = "Error" =>
        /\ DecodeAll(Consumed(frame), frame.pre, <<>>).left = <<>>
        /\ Len(DecodeAll(Consumed(frame), frame.pre, <<>>).blocks)
               = Len(frame.blocks)
        /\ Dyn = DecodeAll(Consumed(frame), frame.pre, <<>>).dyn

(* The third field failed after two insertions changed the table *)
C17_Witness ==
    /\ frame.status = "Error"
    /\ Len(frame.blocks) = 2
    /\ Res.kind = "Error"
    /\ table # frame.pre.table
    /\ Len(table) = Len(frame.pre.table) + 2

(* C18: whenever a header-field decoder or a Headers, PushPromise or        *)
(* Continuation body decoder returns Incomplete, the Dynamic Table          *)
(* (entries, current_size, overflow) is what it was before the call.        *)
C18_AsStated ==
    /\ (Called /\ Res.kind = "Incomplete") =>
          /\ table = Pre.table
          /\ current_size = Pre.current_size
          /\ overflow = Pre.overflow
    /\ frame.status = "Incomplete" =>
          /\ table = frame.pre.table
          /\ current_size = frame.pre.current_size
          /\ overflow = frame.pre.overflow

SoftStatuses == {NotIndexed, IntegerOverflow, Index0, SizeUpdate}

(* C19: a field decoded with a soft status (NotIndexed, IntegerOverflow,    *)
(* Index0, SizeUpdate) does not abort the header block: it is appended to   *)
(* the block list as an Ok result and decoding continues with the bytes     *)
(* that follow it.                                                          *)
C19_SoftStatusContinues ==
    (/\ FrameCalled
     /\ Called
     /\ Res.kind = "Ok"
     /\ Res.val.error \in SoftStatuses) =>
        /\ frame.status \in {"Running", "Ok"}
        /\ frame.blocks # <<>>
        /\ frame.blocks[Len(frame.blocks)] = Res.val
        /\ frame.i3 = Res.rem
        /\ frame.status = "Running" <=> Res.rem # <<>>

(* NotIndexed, Index0 and IntegerOverflow in a row, and the insertion after *)
(* them was decoded                                                         *)
C19_Witness ==
    /\ frame.status = "Ok"
    /\ Len(frame.blocks) = 4
    /\ frame.blocks[1].error = NotIndexed
    /\ frame.blocks[2].error = Index0
    /\ frame.blocks[3].error = IntegerOverflow
    /\ frame.blocks[4].error = Success
    /\ IncindexSuccess

----------------------------------------------------------------------------
(* C21: an Indexed Header Field with index 0 (the byte 0x80) yields an Ok   *)
(* field with status Index0, empty name and empty value, consumes exactly   *)
(* its one byte and leaves the Dynamic Table unchanged, in every table      *)
(* state.                                                                   *)
C21_Index0 ==
    (Called /\ last.input[1] = 128) =>
        /\ Res = Ok(Tail(last.input), HTTP2FrameHeaderBlock(<<>>, <<>>, Index0, 0))
        /\ Dyn = Pre

(* Index 0 on a table of two entries in the Pending state, bytes after it   *)
C21_Witness ==
    /\ Called
    /\ last.input = <<128, 1, 97, 1, 98>>
    /\ Res.val.error = Index0
    /\ Res.rem = <<1, 97, 1, 98>>
    /\ Len(table) = 2
    /\ overflow = 1

(* The static entries with a fixed value: :method, :path, :scheme, :status  *)
(* and accept-encoding                                                      *)
WithFixedValue == (2..14) \cup {16}

(* The index of a one-byte Indexed Header Field *)
OneByteIndex == last.input[1] - 128

(* C22: for every index 1..61 an Indexed Header Field returns the fixed     *)
(* static-table name, and the fixed value where one exists, otherwise an    *)
(* empty value, with status Success, whatever the Dynamic Table holds and   *)
(* without changing it; the byte 0x82 gives :method / GET with nothing      *)
(* left.                                                                    *)
C22_StaticLookup ==
    (Called /\ OneByteIndex \in 1..61) =>
        /\ Res = Ok(Tail(last.input),
                    HTTP2FrameHeaderBlock(StaticTable[OneByteIndex][1],
                                          StaticTable[OneByteIndex][2], Success, 0))
        /\ Res.val.name # <<>>
        /\ Res.val.value # <<>> <=> OneByteIndex \in WithFixedValue
        /\ last.input = <<130>> =>
              /\ Res.val.name = <<58, 109, 101, 116, 104, 111, 100>>
              /\ Res.val.value = <<71, 69, 84>>
              /\ Res.rem = <<>>
        /\ OneByteIndex = 61 =>
              Res.val.name = <<119, 119, 119, 45, 97, 117, 116, 104, 101, 110,
                               116, 105, 99, 97, 116, 101>>
        /\ Dyn = Pre

(* 0x82 against a table of two entries *)
C22_Witness ==
    /\ Called
    /\ last.input = <<130>>
    /\ Res.val = HTTP2FrameHeaderBlock(<<58, 109, 101, 116, 104, 111, 100>>,
                                       <<71, 69, 84>>, Success, 0)
    /\ Len(table) = 2

SubDecoders == {"indexed", "incindex", "dynamic_size", "neverindex", "noindex"}

(* The encoding a first byte announces: 1xxxxxxx, 01xxxxxx, 001xxxxx,       *)
(* 0001xxxx, 0000xxxx                                                       *)
Announced(b) ==
    IF b >= 128 THEN "indexed"
    ELSE IF b >= 64 THEN "incindex"
    ELSE IF b >= 32 THEN "dynamic_size"
    ELSE IF b >= 16 THEN "neverindex"
    ELSE "noindex"

(* The width of the VarInt prefix of each encoding *)
PrefixBits(d) ==
    CASE d = "indexed" -> 7
      [] d = "incindex" -> 6
      [] d = "dynamic_size" -> 5
      [] d = "neverindex" -> 4
      [] d = "noindex" -> 4

SubDecoder(d, input, dyn_headers) ==
    CASE d = "indexed" -> http2_parse_headers_block_indexed(input, dyn_headers)
      [] d = "incindex" -> http2_parse_headers_block_literal_incindex(input, dyn_headers)
      [] d = "dynamic_size" -> http2_parse_headers_block_dynamic_size(input, dyn_headers)
      [] d = "neverindex" -> http2_parse_headers_block_literal_neverindex(input, dyn_headers)
      [] d = "noindex" -> http2_parse_headers_block_literal_noindex(input, dyn_headers)

(* The verify! of a sub-decoder's bit parser rejected the first byte *)
VerifyFailed(d, input, dyn_headers) == SubDecoder(d, input, dyn_headers) = Error(input)

(* The call returned what the sub-decoder d returns *)
ReturnedBy(d) ==
    /\ Res.kind = WithTable(SubDecoder(d, last.input, Pre), Pre).kind
    /\ Res.rem = WithTable(SubDecoder(d, last.input, Pre), Pre).rem
    /\ Res.val = WithTable(SubDecoder(d, last.input, Pre), Pre).val
    /\ Dyn = WithTable(SubDecoder(d, last.input, Pre), Pre).dyn

(* C23: field dispatch is total and exclusive over the first byte: each of  *)
(* the 256 byte values goes to the sub-decoder its top bits announce, whose *)
(* bit-pattern verification accepts it and whose prefix is the low 7, 6, 5, *)
(* 4 or 4 bits; every other sub-decoder would reject the byte.              *)
C23_Dispatch ==
    Called =>
        /\ last.input[1] \in 0..255
        /\ ReturnedBy(Announced(last.input[1]))
        /\ ~VerifyFailed(Announced(last.input[1]), last.input, Pre)
        /\ \A d \in SubDecoders \ {Announced(last.input[1])} :
               VerifyFailed(d, last.input, Pre)
        /\ (last.input[1] % (2 ^ PrefixBits(Announced(last.input[1])))
                < 2 ^ PrefixBits(Announced(last.input[1])) - 1
             /\ Announced(last.input[1]) \in {"indexed", "dynamic_size"})
            => Res.kind = "Ok" /\ Res.rem = Tail(last.input)

(* 0x3f with one continuation byte is a size update to 31 + 1 *)
C23_Witness ==
    /\ Called
    /\ last.input = <<63, 1, 97, 1, 98>>
    /\ Res.kind = "Ok"
    /\ Res.val = HTTP2FrameHeaderBlock(<<>>, <<>>, SizeUpdate, 32)
    /\ Res.rem = <<97, 1, 98>>

StringReturned == call.decoder = "string" /\ call.res.kind # "None"

(* The two fields of the first byte of a string literal *)
StringHuffman == call.input[1] \div 128
StringPrefix == call.input[1] % 128

(* The flag/prefix byte and the VarInt continuation bytes with their        *)
(* terminating byte                                                         *)
StringHeaderLen ==
    1 + (IF StringPrefix = 127 THEN ContinuationCount(Tail(call.input)) + 1 ELSE 0)

(* The length L, decoded as a VarInt with a 7-bit prefix *)
StringLength == http2_parse_var_uint(Tail(call.input), StringPrefix, 127)

StringLengthDecoded ==
    /\ StringLength.kind = "Ok"
    /\ ~(StringLength.val = 0 /\ StringPrefix = 127)

(* C24: a successful string-literal decode consumes exactly the flag/prefix *)
(* byte, the VarInt continuation bytes and L payload bytes, L the decoded   *)
(* length, whether or not the Huffman flag is set; with the flag 0 the      *)
(* value is exactly those L bytes; with fewer than L bytes available the    *)
(* result is Incomplete, not a value.                                       *)
C24_StringLiteral ==
    (StringReturned /\ call.input # <<>>) =>
        /\ call.res.kind = "Ok" =>
              /\ StringLengthDecoded
              /\ Len(call.input) >= StringHeaderLen + StringLength.val
              /\ call.res.rem = Drop(call.input, StringHeaderLen + StringLength.val)
              /\ StringHuffman = 0 =>
                    call.res.val = SubSeq(call.input, StringHeaderLen + 1,
                                          StringHeaderLen + StringLength.val)
        /\ StringLengthDecoded =>
              IF Len(call.input) - StringHeaderLen < StringLength.val
              THEN call.res.kind = "Incomplete"
              ELSE call.res.kind = "Ok"

(* A Huffman-coded string of 127 + 1 bytes with one byte after it *)
C24_Witness ==
    /\ StringReturned
    /\ call.input = <<255, 1>> \o Repeat(97, 128) \o <<5>>
    /\ call.res.kind = "Ok"
    /\ call.res.rem = <<5>>

(* The bytes of a Headers frame body before its header block, by the flags *)
PadLengthBytes(flags) == IF (flags \div 8) % 2 = 1 THEN 1 ELSE 0
PriorityBytes(flags) == IF (flags \div 32) % 2 = 1 THEN 5 ELSE 0

HeadersReturned == frame.decoder = "headers" /\ frame.status # "Running"

(* C25: in a Headers frame body the pad-length byte is present if and only  *)
(* if the PADDED flag (0x8) is set, the 5-byte priority structure if and    *)
(* only if the PRIORITY flag (0x20) is set, and the header fields are       *)
(* decoded over all the bytes that remain: the declared padding is not      *)
(* excluded, trailing padding is decoded as header fields.                  *)
C25_HeadersLayout ==
    frame.decoder = "headers" =>
        IF Len(frame.input) < PadLengthBytes(frame.flags) + PriorityBytes(frame.flags)
        THEN frame.status = "Incomplete" /\ frame.blocks = <<>>
        ELSE /\ frame.padlength =
                    (IF PadLengthBytes(frame.flags) = 1
                     THEN <<frame.input[1]>> ELSE <<>>)
             /\ frame.priority =
                    (IF PriorityBytes(frame.flags) = 5
                     THEN <<HTTP2FrameHeadersPriority(
                                frame.input[PadLengthBytes(frame.flags) + 1] \div 128,
                                (frame.input[PadLengthBytes(frame.flags) + 1] % 128)
                                        * 16777216
                                    + frame.input[PadLengthBytes(frame.flags) + 2] * 65536
                                    + frame.input[PadLengthBytes(frame.flags) + 3] * 256
                                    + frame.input[PadLengthBytes(frame.flags) + 4],
                                frame.input[PadLengthBytes(frame.flags) + 5])>>
                     ELSE <<>>)
             \* the loop works through everything after the fixed part
             /\ frame.i3 = SubSeq(frame.input, Len(frame.input) - Len(frame.i3) + 1,
                                  Len(frame.input))
             /\ Len(frame.input) - Len(frame.i3)
                    >= PadLengthBytes(frame.flags) + PriorityBytes(frame.flags)
             /\ DecodeAll(SubSeq(frame.input,
                                 PadLengthBytes(frame.flags)
                                     + PriorityBytes(frame.flags) + 1,
                                 Len(frame.input) - Len(frame.i3)),
                          frame.pre, <<>>).blocks = frame.blocks
             /\ frame.status = "Ok" => frame.i3 = <<>>
             /\ frame.status = "Incomplete" => frame.i3 # <<>>

(* Pad length 3: the three padding bytes after the field ("a", "b") are     *)
(* returned as a second field, a literal with empty name and empty value    *)
C25_Witness ==
    /\ HeadersReturned
    /\ frame.flags = 8
    /\ frame.input = <<3>> \o FieldAB \o <<0, 0, 0>>
    /\ frame.padlength = <<3>>
    /\ frame.priority = <<>>
    /\ frame.status = "Ok"
    /\ frame.blocks = << HTTP2FrameHeaderBlock(<<97>>, <<98>>, Success, 0),
                         HTTP2FrameHeaderBlock(<<>>, <<>>, Success, 0) >>

SettingsReturned == call.decoder = "settings" /\ call.res.kind # "None"

(* The j-th 6-byte pair of the input: its id and the two halves of its value *)
PairId(input, j) == input[6 * j - 5] * 256 + input[6 * j - 4]
PairHi(input, j) == input[6 * j - 3] * 256 + input[6 * j - 2]
PairLo(input, j) == input[6 * j - 1] * 256 + input[6 * j]

(* A complete pair with a recognized id starts after j pairs *)
PairFollows(input, j) == Len(input) >= 6 * j + 6 /\ PairId(input, j + 1) \in 1..6

(* C26: Settings body decoding never returns an error or Incomplete: it     *)
(* returns the longest prefix of complete (16-bit id, 32-bit value) pairs   *)
(* whose ids are all in 1..6, stops at the first unrecognized id or         *)
(* truncated pair, and returns no pair that follows the stopping point.     *)
C26_SettingsPrefix ==
    SettingsReturned =>
        /\ call.res.kind = "Ok"
        /\ 6 * Len(call.res.val) <= Len(call.input)
        /\ call.res.rem = Drop(call.input, 6 * Len(call.res.val))
        /\ \A j \in 1..Len(call.res.val) :
               /\ PairId(call.input, j) \in 1..6
               /\ call.res.val[j].id = PairId(call.input, j)
               /\ call.res.val[j].value.hi = PairHi(call.input, j)
               /\ call.res.val[j].value.lo = PairLo(call.input, j)
        /\ ~PairFollows(call.input, Len(call.res.val))

(* id 1, then id 7, then id 3: only the first pair is returned and the      *)
(* twelve bytes from the unrecognized id on are the remainder               *)
C26_Witness ==
    /\ SettingsReturned
    /\ call.input = <<0, 1, 0, 0, 16, 0>> \o <<0, 7, 0, 0, 0, 1>>
                        \o <<0, 3, 0, 0, 0, 100>>
    /\ Len(call.res.val) = 1
    /\ call.res.val[1].id = 1
    /\ call.res.val[1].value.lo = 4096
    /\ Len(call.res.rem) = 12

FrameHeaderReturned == call.decoder = "frame_header" /\ call.res.kind # "None"

(* C27: the frame header decoder, given at least 9 bytes, consumes exactly  *)
(* 9 and returns length = big-endian bytes 0..2, type = byte 3, flags =     *)
(* byte 4, reserved = the top bit of byte 5 and stream_id = the low 31 bits *)
(* of big-endian bytes 5..8, the bytes after them untouched; given fewer    *)
(* than 9 bytes it returns Incomplete.                                      *)
C27_FrameHeader ==
    FrameHeaderReturned =>
        IF Len(call.input) < 9
        THEN call.res.kind = "Incomplete"
        ELSE /\ call.res.kind = "Ok"
             /\ call.res.rem = SubSeq(call.input, 10, Len(call.input))
             /\ call.res.val.length = call.input[1] * 65536 + call.input[2] * 256
                                          + call.input[3]
             /\ call.res.val.ftype = call.input[4]
             /\ call.res.val.flags = call.input[5]
             /\ call.res.val.reserved = (IF call.input[6] >= 128 THEN 1 ELSE 0)
             /\ call.res.val.stream_id =
                    (call.input[6] - 128 * call.res.val.reserved) * 16777216
                        + call.input[7] * 65536 + call.input[8] * 256 + call.input[9]
             /\ call.res.val.stream_id >= 0

(* All bits set: length 2^24 - 1, reserved 1, stream_id 2^31 - 1, and the   *)
(* two bytes after the header are the remainder                             *)
C27_Witness ==
    /\ FrameHeaderReturned
    /\ call.input = <<255, 255, 255, 9, 45, 255, 255, 255, 255, 0, 3>>
    /\ call.res.val = HTTP2FrameHeader(16777215, 9, 45, 1, 2147483647)
    /\ call.res.rem = <<0, 3>>

(* The last call was a size update that was carried out *)
SizeUpdateDone ==
    Called /\ IsSizeUpdate(last.input) /\ Res.kind = "Ok" /\ Res.val.error = SizeUpdate

(* C28: in every reachable state of a Dynamic Table that started empty with *)
(* current_size 0, in each overflow state and whatever the owner assigns to *)
(* max_size and overflow, current_size is at least the sum of the costs of  *)
(* the stored entries; hence no subtraction of an eviction, in an insertion *)
(* or in a size update, goes below zero.                                    *)
C28_SizeCoversEntries ==
    /\ current_size >= TableCost(table)
    /\ Called =>
          /\ Pre.current_size >= TableCost(Pre.table)
          \* the evicted entries were paid out of what the table had
          /\ Len(table) <= Len(Pre.table) =>
                Pre.current_size
                    - TableCost(SubSeq(Pre.table, 1, Len(Pre.table) - Len(table)))
                    >= 0

(* A size update evicted an entry from a table whose current_size also      *)
(* counts an entry that was never stored                                    *)
C28_Witness ==
    /\ SizeUpdateDone
    /\ Pre.current_size > TableCost(Pre.table)
    /\ Len(table) < Len(Pre.table)
    /\ table # <<>>
    /\ current_size > TableCost(table)

(* C29: as long as the overflow state has been Clean throughout the        *)
(* history of the table, current_size is exactly the sum of                 *)
(* 32 + len(name) + len(value) over the stored entries after every decode,  *)
(* whatever the interleaving of insertions, size updates and changes of     *)
(* max_size by the owner.                                                   *)
C29_ExactWhileClean ==
    /\ overflow = 0
    /\ current_size = TableCost(table)
    /\ notstored = 0

(* An insertion into a Clean table evicted the oldest entry and kept the    *)
(* next, under a max_size that the owner took from a size update            *)
C29_Witness ==
    /\ IncindexSuccess
    /\ overflow = 0
    /\ Pre.max_size \notin NegotiatedSizes
    /\ Len(Pre.table) >= 2
    /\ Len(table) = Len(Pre.table)
    /\ EvictedFrom(Append(Pre.table, NewEntry), SizeWithEntry, 1)
    /\ current_size = TableCost(table)

(* The table after the call is the table before it, without some of its    *)
(* oldest entries: nothing was appended                                     *)
NothingAppended ==
    IF IncindexSuccess
    THEN NotAppended
    ELSE \E k \in 0..Len(Pre.table) : table = Drop(Pre.table, k)

(* C30: the only change a decoder makes to the overflow state is Pending to *)
(* Overflowed, and a successful Literal-with-Incremental-Indexing decode    *)
(* makes it; no decode leaves Clean, none leaves Overflowed, and a decode   *)
(* on an Overflowed table appends no entry.                                 *)
C30_OverflowTransitions ==
    Called =>
        /\ overflow # Pre.overflow =>
              Pre.overflow = 1 /\ overflow = 2 /\ IncindexSuccess
        /\ Pre.overflow = 0 => overflow = 0
        /\ Pre.overflow = 2 => overflow = 2 /\ NothingAppended

(* A successful Literal-with-Incremental-Indexing decode took the table     *)
(* from Pending to Overflowed                                               *)
C30_Witness ==
    /\ IncindexSuccess
    /\ Pre.overflow = 1
    /\ overflow = 2
    /\ NotAppended

(* The call left the four fields of the table as they were *)
TableUntouched == Dyn = Pre

(* The bytes the call consumed, and their proper prefixes *)
FieldBytes == SubSeq(last.input, 1, Len(last.input) - Len(Res.rem))
CutShort == {SubSeq(FieldBytes, 1, n) : n \in 1..(Len(FieldBytes) - 1)}

(* C31: a call of http2_parse_headers_block that returns Error or           *)
(* Incomplete leaves the Dynamic Table exactly as it was before the call;   *)
(* a field changes the table only once all of its bytes were decoded: the   *)
(* call that changed it returned Ok, and on each proper prefix of the bytes *)
(* it consumed the decoder returns no field and the table it was given.     *)
C31_FieldAtomicity ==
    Called =>
        /\ Res.kind \in {"Error", "Incomplete"} => TableUntouched
        /\ ~TableUntouched =>
              /\ Res.kind = "Ok"
              /\ \A p \in CutShort :
                    /\ http2_parse_headers_block(p, Pre).kind \in {"Error", "Incomplete"}
                    /\ http2_parse_headers_block(p, Pre).dyn = Pre

(* A field cut short or in error was given to one of the two decoders that  *)
(* write the table, on a table with entries, and the table was not changed  *)
C31_Witness ==
    /\ Called
    /\ Res.kind \in {"Error", "Incomplete"}
    /\ IsIncindex(last.input) \/ IsSizeUpdate(last.input)
    /\ Pre.table # <<>>
    /\ Pre.current_size > 0
    /\ TableUntouched

(* The loop of a header-bearing frame at the iteration that decodes the     *)
(* bytes of the last call                                                   *)
IterationOn(i3) == [NoFrame EXCEPT !.status = "Running", !.i3 = i3]

(* The five field decoders, by the bits of the first byte *)
FieldDecoderOf(input) ==
    IF IsIndexed(input) THEN "indexed"
    ELSE IF IsIncindex(input) THEN "incindex"
    ELSE IF IsSizeUpdate(input) THEN "dynamic_size"
    ELSE IF IsNeverindex(input) THEN "neverindex"
    ELSE "noindex"

(* C32: each of the five header-field decoders, whenever it returns Ok, has *)
(* consumed at least one byte of its input: the remainder is a strictly     *)
(* shorter suffix.  Hence an iteration of the loop of Headers, PushPromise  *)
(* and Continuation on that result does not take the branch                 *)
(* "i3.len() == rem.len()" that returns Error.                              *)
C32_FieldProgress ==
    (Called /\ Res.kind = "Ok") =>
        /\ Len(Res.rem) < Len(last.input)
        /\ Res.rem = Drop(last.input, Len(last.input) - Len(Res.rem))
        /\ LoopStep(IterationOn(last.input), Res).status \in {"Ok", "Running"}
        /\ LoopStep(IterationOn(last.input), Res).i3 = Res.rem

(* A field of one byte was decoded with bytes left after it: the least      *)
(* progress a decoder makes, and the loop goes on                           *)
C32_Witness ==
    /\ Called
    /\ Res.kind = "Ok"
    /\ Len(Res.rem) = Len(last.input) - 1
    /\ Res.rem # <<>>
    /\ LoopStep(IterationOn(last.input), Res).status = "Running"

=============================================================================
